---- MODULE Spec2Model ----
(***************************************************************************)
(* Model of the neocrush daemon (cmd/neocrush main package, rpc, session,   *)
(* internal/daemon).                                                       *)
(* These specifications share this module:                                 *)
(*   SpecDiff    the pure edit transformer (computeLineEdits and the       *)
(*               no-op edit construction of didChangeToApplyEdit)          *)
(*   SpecLaunch  client start-up: connectToDaemon,                         *)
(*               startDaemonAndCreateSession and runDaemon's start         *)
(*   Spec        the running daemon: accept loop, handleClient,            *)
(*               forwarding, edit transformation, auto-shutdown            *)
(*   SpecHist    Spec with its history variables recorded, for up to       *)
(*               MaxHistConns connections                                  *)
(*   SpecCtx     Spec whose clients also send cursor positions and         *)
(*               selections                                                *)
(*   SpecContext tool queries against a daemon holding a cursor and a      *)
(*               cached document of up to MaxCtxLines lines                *)
(*   SpecIdentify  first frames of connections, over IdentifyNames         *)
(*   SpecSession session managers of several processes on one workspace    *)
(*   FairSpec    Spec with weak fairness of the handlers' deferred cleanup *)
(*               and of the accept loop                                    *)
(*   SpecAnswers Spec whose clients also send responses with a result      *)
(*   SpecDiscover  SpecSession with Manager.DiscoverSession                *)
(*   SpecDaemonStart, SpecDaemonLife  daemon processes from their session  *)
(*               check to their end                                        *)
(*   SpecHandler, SpecHandlerCursor  the protocol handler of               *)
(*               internal/daemon over the shared state of a session        *)
(*   SpecDetect  runClient's protocol detection                            *)
(*   SpecEdit    the handler's crush/editFile and crush/focusFile          *)
(*   SpecWire    Spec whose clients also send malformed byte streams       *)
(*   SpecCodec   EncodeMessage, Split, DecodeMessage over chunked streams  *)
(*   SpecConcurrent  the handler's goroutines, one step per lock region    *)
(*   SpecServe   the serve loops of internal/daemon and Daemon.Shutdown    *)
(*   SpecAlloc   the allocation of request ids, one step per statement     *)
(* written holds what the last step wrote to the connections.              *)
(* Texts are sequences of characters; NL is "\n"; the other characters     *)
(* stand for arbitrary non-newline content.                                *)
(***************************************************************************)
EXTENDS Integers, Sequences, FiniteSets, TLC

VARIABLES
    \* ---- SpecDiff ----
    oldText, newText, diffPc, diffEdits, noopEdits,
    \* ---- SpecLaunch ----
    metaFile, sockFiles, nextSessID, cliPc, cliSess, cliConn, cliPolls, dmnPc,
    \* ---- SpecSession ----
    sessions, sessResult, discoverPc,
    \* ---- Spec (running daemon) ----
    listenerOpen, daemonPc, pc, clientName, clients, requestID, pendingRequests,
    documentState, neovimOpenDocs, consumed, written,
    cursorURI, cursorLine, cursorColumn, selectionText,
    \* ---- history of Spec, recorded when histOn (SpecHist) ----
    histOn, editorOrder, editorOpened, lastAgentChange,
    \* ---- SpecHandler (protocol handler of internal/daemon) ----
    hClients, hDocuments, hCursors, focusedURI, hWritten, hRequestID,
    \* ---- SpecDetect (runClient's protocol detection) ----
    stdin, arrival, protocol,
    \* ---- SpecConcurrent (handler goroutines of internal/daemon, step by step) ----
    hMuReaders, thrPc, thrMsg, thrTodo, bcLast, stalled,
    \* ---- SpecCodec (rpc.Split fed in chunks) ----
    wireMsgs, wireRest, wireBuf, emitted,
    \* ---- SpecServe (Daemon.serveClient loops and Daemon.Shutdown) ----
    ctxDone, servePc, served, lateDispatch,
    \* ---- SpecAlloc (allocation of request ids, step by step) ----
    allocMu, allocPc, allocLocal, allocated

diffVars == <<oldText, newText, diffPc, diffEdits, noopEdits>>
sessVars == <<sessions, sessResult, discoverPc>>
launchVars == <<metaFile, sockFiles, nextSessID, cliPc, cliSess, cliConn, cliPolls, dmnPc, sessVars>>
cursorVars == <<cursorURI, cursorLine, cursorColumn, selectionText>>
daemonVars == <<listenerOpen, daemonPc, pc, clientName, clients, requestID, pendingRequests,
                documentState, neovimOpenDocs, consumed, written, cursorVars>>
histVars == <<histOn, editorOrder, editorOpened, lastAgentChange>>
handlerVars == <<hClients, hDocuments, hCursors, focusedURI, hWritten, hRequestID>>
detectVars == <<stdin, arrival, protocol>>
concVars == <<hMuReaders, thrPc, thrMsg, thrTodo, bcLast, stalled>>
codecVars == <<wireMsgs, wireRest, wireBuf, emitted>>
serveVars == <<ctxDone, servePc, served, lateDispatch>>
allocVars == <<allocMu, allocPc, allocLocal, allocated>>
moreVars == <<concVars, codecVars, serveVars, allocVars>>
auxVars == <<handlerVars, detectVars, moreVars>>
vars == <<diffVars, launchVars, daemonVars, histVars, auxVars>>

----------------------------------------------------------------------------
(* Bounds *)
MaxLen == 4          \* longest text enumerated for the pure diff
MaxClients == 2      \* client processes started in one workspace
MaxPolls == 2        \* socket polls before startDaemonAndCreateSession gives up
MaxConns == 2        \* connections the daemon accepts
MaxManagers == 2     \* session managers (processes) of SpecSession
MaxSessions == 2     \* session ids minted in SpecSession
MaxCursorLine == 3   \* largest cursor line and column a notification carries
MaxCtxLines == 12    \* most lines of a document cached when SpecContext starts
MaxHistConns == 3    \* connections the daemon accepts when the history is recorded
MaxRequests == 1     \* workspace/applyEdit requests the daemon issues
MaxVersion == 2      \* largest document version a notification carries (SpecHandler)
MaxChanges == 2      \* most contentChanges of one textDocument/didChange (SpecHandler)
MaxInput == 3        \* bytes of standard input enumerated for protocol detection

----------------------------------------------------------------------------
(* Text helpers: strings.Split(s, "\n") and strings.Join(lines, "\n") *)
NL == "\n"
Chars == {"a", "b", NL}

RECURSIVE TextsOfLen(_)
TextsOfLen(n) ==
    IF n = 0 THEN {<<>>}
    ELSE {Append(t, ch) : t \in TextsOfLen(n - 1), ch \in Chars}

AllTexts == UNION {TextsOfLen(n) : n \in 0..MaxLen}

RECURSIVE Split(_)
Split(s) ==
    IF \A i \in 1..Len(s) : s[i] # NL THEN <<s>>
    ELSE LET i == CHOOSE k \in 1..Len(s) :
                      s[k] = NL /\ \A j \in 1..(k - 1) : s[j] # NL
         IN <<SubSeq(s, 1, i - 1)>> \o Split(SubSeq(s, i + 1, Len(s)))

RECURSIVE Join(_)
Join(ls) ==
    IF Len(ls) = 0 THEN <<>>
    ELSE IF Len(ls) = 1 THEN ls[1]
    ELSE ls[1] \o <<NL>> \o Join(Tail(ls))

\* Go slices are 0-based: lines[i] is At(lines, i); lines[a:b] is Slice
At(ls, i) == ls[i + 1]
Slice(ls, a, b) == SubSeq(ls, a + 1, b)

Min(a, b) == IF a < b THEN a ELSE b

----------------------------------------------------------------------------
(* computeLineEdits *)
RECURSIVE PrefixLen(_, _, _)
PrefixLen(ol, nl, k) ==
    IF k < Len(ol) /\ k < Len(nl) /\ At(ol, k) = At(nl, k)
    THEN PrefixLen(ol, nl, k + 1) ELSE k

RECURSIVE SuffixLen(_, _, _, _)
SuffixLen(ol, nl, p, k) ==
    IF k < Len(ol) - p /\ k < Len(nl) - p
       /\ At(ol, Len(ol) - 1 - k) = At(nl, Len(nl) - 1 - k)
    THEN SuffixLen(ol, nl, p, k + 1) ELSE k

MkEdit(sl, el, txt) ==
    [startLine |-> sl, startChar |-> 0, endLine |-> el, endChar |-> 0, newText |-> txt]

computeLineEdits(old, new) ==
    LET oldLines == Split(old)
        newLines == Split(new)
        prefixLen == PrefixLen(oldLines, newLines, 0)
        suffixLen == SuffixLen(oldLines, newLines, prefixLen, 0)
        oldStart == prefixLen
        oldEnd == Min(Len(oldLines) - suffixLen, Len(oldLines))
        newStart == prefixLen
        newEnd == Min(Len(newLines) - suffixLen, Len(newLines))
        replacementLines == IF newStart < newEnd THEN Slice(newLines, newStart, newEnd) ELSE <<>>
        joined == Join(replacementLines)
        replacementText ==
            IF newEnd < Len(newLines) /\ Len(replacementLines) > 0 THEN joined \o <<NL>>
            ELSE IF oldEnd < Len(oldLines) /\ Len(replacementLines) > 0 THEN joined \o <<NL>>
            ELSE joined
    IN IF oldStart >= oldEnd /\ newStart >= newEnd THEN <<>>
       ELSE <<MkEdit(oldStart, oldEnd, replacementText)>>

\* the loop of didChangeToApplyEdit that turns the real edits into no-op edits
NoOpEdit(edit, new) ==
    LET newLines == Split(new)
        startLine == edit.startLine
        endLine == edit.endLine
        hi == Min(endLine, Len(newLines))
        replacementLines == IF startLine < hi THEN Slice(newLines, startLine, hi) ELSE <<>>
        joined == Join(replacementLines)
        replacementText ==
            IF Len(replacementLines) > 0 /\ endLine <= Len(newLines)
            THEN joined \o <<NL>> ELSE joined
    IN MkEdit(edit.startLine, edit.endLine, replacementText)

NoOpEdits(realEdits, new) == [i \in 1..Len(realEdits) |-> NoOpEdit(realEdits[i], new)]

----------------------------------------------------------------------------
(* SpecDiff: the edit transformer as a pure function of (baseline, target) *)
DiffIdle ==
    /\ oldText = <<>> /\ newText = <<>> /\ diffPc = "off"
    /\ diffEdits = <<>> /\ noopEdits = <<>>

InitDiff ==
    /\ oldText \in AllTexts
    /\ newText \in AllTexts
    /\ diffPc = "input"
    /\ diffEdits = <<>>
    /\ noopEdits = <<>>

\* the branch of didChangeToApplyEdit taken when Neovim has the file open
RealDiff ==
    /\ diffPc = "input"
    /\ diffEdits' = computeLineEdits(oldText, newText)
    /\ noopEdits' = <<>>
    /\ diffPc' = "real"
    /\ UNCHANGED <<oldText, newText, auxVars, launchVars, daemonVars, histVars>>

\* the branch taken when Neovim does not have the file open
NoOpDiff ==
    /\ diffPc = "input"
    /\ diffEdits' = computeLineEdits(oldText, newText)
    /\ noopEdits' = NoOpEdits(computeLineEdits(oldText, newText), newText)
    /\ diffPc' = "noop"
    /\ UNCHANGED <<oldText, newText, auxVars, launchVars, daemonVars, histVars>>

----------------------------------------------------------------------------
(* Applying a TextEdit to a text: a position (line, 0) is the offset of    *)
(* the start of that line, and a position past the last line is the end of *)
(* the text.                                                               *)
RECURSIVE LineOffset(_, _)
LineOffset(ls, line) ==
    IF line = 0 THEN 0
    ELSE LineOffset(ls, line - 1) + Len(At(ls, line - 1)) + 1

OffsetOf(text, line) ==
    LET ls == Split(text)
    IN IF line >= Len(ls) THEN Len(text) ELSE LineOffset(ls, line)

ApplyEdit(text, edit) ==
    LET so == OffsetOf(text, edit.startLine)
        eo == OffsetOf(text, edit.endLine)
    IN SubSeq(text, 1, so) \o edit.newText \o SubSeq(text, eo + 1, Len(text))


----------------------------------------------------------------------------
(* Values the variables of the other specifications hold while one runs *)
Clients == 1..MaxClients
Conns == DOMAIN pc

LaunchIdle ==
    /\ metaFile = <<>> /\ sockFiles = {} /\ nextSessID = 1
    /\ cliPc = [p \in Clients |-> "off"]
    /\ cliSess = [p \in Clients |-> <<>>]
    /\ cliConn = [p \in Clients |-> <<>>]
    /\ cliPolls = [p \in Clients |-> 0]
    /\ dmnPc = <<>>
    /\ sessions = <<>> /\ sessResult = <<>> /\ discoverPc = <<>>

\* NewHandler: no clients; state.NewState: no documents, no cursors
HandlerIdle ==
    /\ hClients = <<>> /\ hDocuments = <<>> /\ hCursors = <<>>
    /\ focusedURI = "" /\ hWritten = {} /\ hRequestID = 0

\* runClient not started
DetectIdle == stdin = <<>> /\ arrival = "off" /\ protocol = ""

\* no handler goroutine running
ConcIdle ==
    /\ hMuReaders = {} /\ thrPc = <<>> /\ thrMsg = <<>> /\ thrTodo = <<>>
    /\ bcLast = <<>> /\ stalled = {}

\* no stream being split
CodecIdle == wireMsgs = <<>> /\ wireRest = <<>> /\ wireBuf = <<>> /\ emitted = <<>>

\* no serve loop started
ServeIdle == ctxDone = FALSE /\ servePc = <<>> /\ served = <<>> /\ lateDispatch = FALSE

AllocIdle == allocMu = 0 /\ allocPc = <<>> /\ allocLocal = <<>> /\ allocated = <<>>
MoreIdle == ConcIdle /\ CodecIdle /\ ServeIdle /\ AllocIdle

AuxIdle == HandlerIdle /\ DetectIdle /\ MoreIdle

DaemonIdle ==
    /\ listenerOpen = FALSE /\ daemonPc = "off"
    /\ pc = [c \in 1..MaxConns |-> "off"]
    /\ clientName = [c \in 1..MaxConns |-> ""]
    /\ clients = <<>>
    /\ requestID = 0 /\ pendingRequests = {}
    /\ documentState = <<>> /\ neovimOpenDocs = {}
    /\ consumed = <<>> /\ written = <<>>
    /\ cursorURI = "" /\ cursorLine = 0 /\ cursorColumn = 0 /\ selectionText = <<>>
    /\ histOn = FALSE /\ editorOrder = <<>> /\ editorOpened = <<>> /\ lastAgentChange = <<>>

----------------------------------------------------------------------------
(* SpecSession: session managers of several processes working on one       *)
(* workspace.  metaFile is the workspace's .crush/session file (its JSON   *)
(* keys id and socket_path), sockFiles the socket paths that exist,        *)
(* sessions the in-memory table of each manager and sessResult what the    *)
(* last call returned.  Session ids are minted fresh.                      *)
Managers == 1..MaxManagers

\* filepath.Join(m.socketDir, id+".sock")
SocketPathOf(id) == <<"crush-lsp", id, ".sock">>

\* the Session value CreateSession builds
NewSession(id) == [ID |-> id, SocketPath |-> SocketPathOf(id)]

\* a session file that records no id
saveWorkspaceSessionFile_noId(session) == [id |-> 0, socket_path |-> session.SocketPath]
\* saveWorkspaceSessionFile: the SessionMetadata written as JSON
saveWorkspaceSessionFile(session) == [id |-> session.ID, socket_path |-> session.SocketPath]

\* a load that drops the recorded socket path
SessionOfMetadata_noPath(meta) == [ID |-> meta.id, SocketPath |-> <<>>]
\* the Session value loadSessionFromWorkspace builds from the parsed file
SessionOfMetadata(meta) == [ID |-> meta.id, SocketPath |-> meta.socket_path]

Returned(session) == [err |-> FALSE, session |-> <<session>>]
Failed == [err |-> TRUE, session |-> <<>>]

InitSession ==
    /\ metaFile = <<>>
    /\ sockFiles = {}
    /\ nextSessID = 1
    /\ sessions = [m \in Managers |-> <<>>]
    /\ sessResult = <<>>
    /\ discoverPc = [m \in Managers |-> "idle"]
    /\ cliPc = [p \in Clients |-> "off"]
    /\ cliSess = [p \in Clients |-> <<>>]
    /\ cliConn = [p \in Clients |-> <<>>]
    /\ cliPolls = [p \in Clients |-> 0]
    /\ dmnPc = <<>>

SessUnchanged == UNCHANGED <<cliPc, cliSess, cliConn, cliPolls, dmnPc, diffVars, auxVars, daemonVars, histVars>>

\* the body of Manager.CreateSession
CreateSessionBody(m) ==
    /\ nextSessID <= MaxSessions
    /\ LET session == NewSession(nextSessID)
       IN /\ metaFile' = <<saveWorkspaceSessionFile(session)>>
          /\ sessions' = [sessions EXCEPT ![m] = [x \in DOMAIN @ \cup {session.ID} |->
                                                    IF x = session.ID THEN session ELSE @[x]]]
          /\ sessResult' = Returned(session)
    /\ nextSessID' = nextSessID + 1
    /\ UNCHANGED sockFiles
    /\ SessUnchanged

\* Manager.CreateSession called on its own
MgrCreateSession(m) ==
    /\ CreateSessionBody(m)
    /\ UNCHANGED discoverPc

\* a session file whose content json.Unmarshal rejects
Unparseable == [garbage |-> TRUE]
IsParseable(meta) == "id" \in DOMAIN meta

\* a socket check that never finds the session stale
IsStale_never(meta, checkSocket) == FALSE
\* checkSocket and os.Stat(meta.SocketPath) fails
IsStale(meta, checkSocket) == checkSocket /\ meta.socket_path \notin sockFiles

\* the body of Manager.loadSessionFromWorkspace(workspaceRoot, checkSocket)
LoadSessionBody(m, checkSocket) ==
    /\ IF metaFile = <<>> \/ ~IsParseable(metaFile[1])
       THEN /\ sessResult' = Failed
            /\ UNCHANGED <<metaFile, sessions>>
       ELSE LET meta == metaFile[1]
                session == SessionOfMetadata(meta)
            IN IF IsStale(meta, checkSocket)
               THEN /\ metaFile' = <<>>
                    /\ sessResult' = Failed
                    /\ UNCHANGED sessions
               ELSE /\ sessions' = [sessions EXCEPT ![m] = [x \in DOMAIN @ \cup {session.ID} |->
                                                         IF x = session.ID THEN session ELSE @[x]]]
                    /\ sessResult' = Returned(session)
                    /\ UNCHANGED metaFile
    /\ UNCHANGED <<sockFiles, nextSessID>>
    /\ SessUnchanged

\* Manager.LoadSessionFromWorkspace / LoadSessionMetadata called on their own
loadSessionFromWorkspace(m, checkSocket) ==
    /\ LoadSessionBody(m, checkSocket)
    /\ UNCHANGED discoverPc

\* Manager.DiscoverSession: m.LoadSessionFromWorkspace(workspaceRoot); an
\* error leads to CreateSession
DiscoverLoad(m) ==
    /\ discoverPc[m] = "idle"
    /\ LoadSessionBody(m, TRUE)
    /\ discoverPc' = [discoverPc EXCEPT ![m] = IF sessResult'.err THEN "create" ELSE "idle"]

\* Manager.DiscoverSession: return m.CreateSession(workspaceRoot, neovimPID)
DiscoverCreate(m) ==
    /\ discoverPc[m] = "create"
    /\ CreateSessionBody(m)
    /\ discoverPc' = [discoverPc EXCEPT ![m] = "idle"]

\* the session file is left with content that is not the JSON of a session
\* (os.WriteFile truncates before it writes; any other writer)
MetadataGarbled ==
    /\ metaFile # <<>> /\ metaFile # <<Unparseable>>
    /\ metaFile' = <<Unparseable>>
    /\ UNCHANGED <<sockFiles, nextSessID, sessVars>>
    /\ SessUnchanged

\* a removal that leaves the socket file behind
RemoveSocket_keep(socks, session) == socks
\* os.Remove(session.SocketPath)
RemoveSocket(socks, session) == socks \ {session.SocketPath}

\* Manager.RemoveSession
RemoveSession(m, id) ==
    /\ IF id \in DOMAIN sessions[m]
       THEN /\ sessions' = [sessions EXCEPT ![m] = [x \in DOMAIN @ \ {id} |-> @[x]]]
            /\ sockFiles' = RemoveSocket(sockFiles, sessions[m][id])
            /\ metaFile' = <<>>
       ELSE UNCHANGED <<sessions, sockFiles, metaFile>>
    /\ sessResult' = [err |-> FALSE, session |-> <<>>]
    /\ UNCHANGED <<nextSessID, discoverPc>>
    /\ SessUnchanged

\* runDaemon of a minted session: net.Listen creates the socket file
SocketCreated(id) ==
    /\ id \in 1..(nextSessID - 1)
    /\ SocketPathOf(id) \notin sockFiles
    /\ sockFiles' = sockFiles \cup {SocketPathOf(id)}
    /\ UNCHANGED <<metaFile, nextSessID, sessVars>>
    /\ SessUnchanged

\* runDaemon returns: the deferred os.Remove(sess.SocketPath)
SocketRemoved(id) ==
    /\ SocketPathOf(id) \in sockFiles
    /\ sockFiles' = sockFiles \ {SocketPathOf(id)}
    /\ UNCHANGED <<metaFile, nextSessID, sessVars>>
    /\ SessUnchanged

NextSession ==
    \/ \E m \in Managers : MgrCreateSession(m)
    \/ \E m \in Managers, checkSocket \in BOOLEAN : loadSessionFromWorkspace(m, checkSocket)
    \/ \E m \in Managers, id \in 1..MaxSessions : RemoveSession(m, id)
    \/ \E id \in 1..MaxSessions : SocketCreated(id)
    \/ \E id \in 1..MaxSessions : SocketRemoved(id)

InitSpecSession == InitSession /\ DiffIdle /\ DaemonIdle /\ AuxIdle
SpecSession == InitSpecSession /\ [][NextSession]_vars

\* SpecDiscover: SpecSession whose managers also call DiscoverSession and
\* whose session file can hold content that does not parse
NextDiscover ==
    \/ NextSession
    \/ \E m \in Managers : DiscoverLoad(m)
    \/ \E m \in Managers : DiscoverCreate(m)
    \/ MetadataGarbled
SpecDiscover == InitSpecSession /\ [][NextDiscover]_vars

----------------------------------------------------------------------------
(* SpecLaunch: client processes of one workspace bringing up a daemon.     *)
(* Session ids are minted fresh (GenerateSessionID draws 8 random bytes);  *)
(* the socket path of a session is determined by its id.  Id 0 is a        *)
(* session left behind by a daemon that is no longer running.  A file or   *)
(* an optional value is a sequence of length at most one.                  *)
SessIDs == 0..MaxClients

InitLaunch ==
    /\ metaFile \in {<<>>, <<0>>}
    /\ sockFiles \in {{}, {0}}
    /\ nextSessID = 1
    /\ cliPc = [p \in Clients |-> "start"]
    /\ cliSess = [p \in Clients |-> <<>>]
    /\ cliConn = [p \in Clients |-> <<>>]
    /\ cliPolls = [p \in Clients |-> 0]
    /\ dmnPc = [i \in SessIDs |-> IF i = 0 THEN "dead" ELSE "none"]
    /\ sessions = <<>> /\ sessResult = <<>> /\ discoverPc = <<>>

Listening(sess) == sess # <<>> /\ dmnPc[sess[1]] = "listening"

\* connectToDaemon: mgr.LoadSessionMetadata(cwd)
CliLoadMetadata(p) ==
    /\ cliPc[p] = "start"
    /\ IF metaFile # <<>>
       THEN /\ cliSess' = [cliSess EXCEPT ![p] = metaFile]
            /\ cliPc' = [cliPc EXCEPT ![p] = "dial"]
       ELSE /\ cliPc' = [cliPc EXCEPT ![p] = "create"]
            /\ UNCHANGED cliSess
    /\ UNCHANGED <<metaFile, sockFiles, nextSessID, cliConn, cliPolls, dmnPc,
                   sessVars, diffVars, auxVars, daemonVars, histVars>>

\* connectToDaemon: net.DialTimeout on the recorded socket
CliDialExisting(p) ==
    /\ cliPc[p] = "dial"
    /\ IF Listening(cliSess[p])
       THEN /\ cliConn' = [cliConn EXCEPT ![p] = cliSess[p]]
            /\ cliPc' = [cliPc EXCEPT ![p] = "connected"]
       ELSE /\ cliPc' = [cliPc EXCEPT ![p] = "create"]
            /\ UNCHANGED cliConn
    /\ UNCHANGED <<metaFile, sockFiles, nextSessID, cliSess, cliPolls, dmnPc,
                   sessVars, diffVars, auxVars, daemonVars, histVars>>

\* Manager.CreateSession: mint an id and write the workspace session file
CreateSession(p) ==
    /\ cliPc[p] = "create"
    /\ metaFile' = <<nextSessID>>
    /\ cliSess' = [cliSess EXCEPT ![p] = <<nextSessID>>]
    /\ nextSessID' = nextSessID + 1
    /\ cliPc' = [cliPc EXCEPT ![p] = "spawn"]
    /\ UNCHANGED <<sockFiles, cliConn, cliPolls, dmnPc,
                   sessVars, diffVars, auxVars, daemonVars, histVars>>

\* startDaemonAndCreateSession: cmd.Start with CRUSH_SESSION_ID = sess.ID
CliSpawnDaemon(p) ==
    /\ cliPc[p] = "spawn"
    /\ dmnPc' = [dmnPc EXCEPT ![cliSess[p][1]] = "started"]
    /\ cliPc' = [cliPc EXCEPT ![p] = "poll"]
    /\ cliPolls' = [cliPolls EXCEPT ![p] = 0]
    /\ UNCHANGED <<metaFile, sockFiles, nextSessID, cliSess, cliConn,
                   sessVars, diffVars, auxVars, daemonVars, histVars>>

\* startDaemonAndCreateSession: one iteration of the os.Stat polling loop
CliPoll(p) ==
    /\ cliPc[p] = "poll"
    /\ IF cliSess[p][1] \in sockFiles
       THEN /\ cliPc' = [cliPc EXCEPT ![p] = "dialnew"]
            /\ UNCHANGED cliPolls
       ELSE IF cliPolls[p] + 1 >= MaxPolls
       THEN /\ cliPc' = [cliPc EXCEPT ![p] = "failed"]
            /\ cliPolls' = [cliPolls EXCEPT ![p] = cliPolls[p] + 1]
       ELSE /\ cliPolls' = [cliPolls EXCEPT ![p] = cliPolls[p] + 1]
            /\ UNCHANGED cliPc
    /\ UNCHANGED <<metaFile, sockFiles, nextSessID, cliSess, cliConn, dmnPc,
                   sessVars, diffVars, auxVars, daemonVars, histVars>>

\* connectToDaemon: net.DialTimeout on the new session's socket
CliDialNew(p) ==
    /\ cliPc[p] = "dialnew"
    /\ IF Listening(cliSess[p])
       THEN /\ cliConn' = [cliConn EXCEPT ![p] = cliSess[p]]
            /\ cliPc' = [cliPc EXCEPT ![p] = "connected"]
       ELSE /\ cliPc' = [cliPc EXCEPT ![p] = "failed"]
            /\ UNCHANGED cliConn
    /\ UNCHANGED <<metaFile, sockFiles, nextSessID, cliSess, cliPolls, dmnPc,
                   sessVars, diffVars, auxVars, daemonVars, histVars>>

\* CRUSH_SESSION_ID of daemon process i; process -1 is started without it
EnvID(i) == IF i < 0 THEN <<>> ELSE <<i>>

\* a start-up that accepts any session
SessionCheck_lenient(env, meta) == "checked"
\* runDaemon: logger.Fatal when CRUSH_SESSION_ID is empty, when
\* LoadSessionMetadata fails, and when the ids differ
SessionCheck(env, meta) ==
    IF env = <<>> THEN "fatal"
    ELSE IF meta = <<>> THEN "fatal"
    ELSE IF meta[1] # env[1] THEN "fatal"
    ELSE "checked"

\* runDaemon: read the session metadata and compare it with CRUSH_SESSION_ID
DaemonCheckSession(i) ==
    /\ dmnPc[i] = "started"
    /\ dmnPc' = [dmnPc EXCEPT ![i] = SessionCheck(EnvID(i), metaFile)]
    /\ UNCHANGED <<metaFile, sockFiles, nextSessID, cliPc, cliSess, cliConn, cliPolls,
                   sessVars, diffVars, auxVars, daemonVars, histVars>>

\* runDaemon: os.Remove(sess.SocketPath); net.Listen("unix", sess.SocketPath)
DaemonListen(i) ==
    /\ dmnPc[i] = "checked"
    /\ sockFiles' = sockFiles \cup {i}
    /\ dmnPc' = [dmnPc EXCEPT ![i] = "listening"]
    /\ UNCHANGED <<metaFile, nextSessID, cliPc, cliSess, cliConn, cliPolls,
                   sessVars, diffVars, auxVars, daemonVars, histVars>>

NextLaunch ==
    \/ \E p \in Clients : CliLoadMetadata(p)
    \/ \E p \in Clients : CliDialExisting(p)
    \/ \E p \in Clients : CreateSession(p)
    \/ \E p \in Clients : CliSpawnDaemon(p)
    \/ \E p \in Clients : CliPoll(p)
    \/ \E p \in Clients : CliDialNew(p)
    \/ \E i \in SessIDs : DaemonCheckSession(i)
    \/ \E i \in SessIDs : DaemonListen(i)

InitSpecLaunch == InitLaunch /\ DiffIdle /\ DaemonIdle /\ AuxIdle
SpecLaunch == InitSpecLaunch /\ [][NextLaunch]_vars

\* SpecDaemonStart: daemon processes started with every CRUSH_SESSION_ID
\* (process -1 with none) in a workspace whose session file is absent or
\* records some session, with any sockets left on disk
InitDaemonStart ==
    /\ metaFile \in {<<>>} \cup {<<i>> : i \in SessIDs}
    /\ sockFiles \in SUBSET SessIDs
    /\ nextSessID = 1
    /\ cliPc = [p \in Clients |-> "off"]
    /\ cliSess = [p \in Clients |-> <<>>]
    /\ cliConn = [p \in Clients |-> <<>>]
    /\ cliPolls = [p \in Clients |-> 0]
    /\ dmnPc = [i \in (-1)..MaxClients |-> "started"]
    /\ sessions = <<>> /\ sessResult = <<>> /\ discoverPc = <<>>

NextDaemonStart ==
    \/ \E i \in DOMAIN dmnPc : DaemonCheckSession(i)
    \/ \E i \in DOMAIN dmnPc : DaemonListen(i)
InitSpecDaemonStart == InitDaemonStart /\ DiffIdle /\ DaemonIdle /\ AuxIdle
SpecDaemonStart == InitSpecDaemonStart /\ [][NextDaemonStart]_vars

\* runDaemon: daemon.run() returns once the listener is closed (the last
\* identified client left, handleClient's deferred function); the deferred
\* os.Remove(sess.SocketPath) and listener.Close() run, nothing else is removed
DaemonReturn(i) ==
    /\ dmnPc[i] = "listening"
    /\ dmnPc' = [dmnPc EXCEPT ![i] = "exited"]
    /\ sockFiles' = sockFiles \ {i}
    /\ UNCHANGED <<metaFile, nextSessID, cliPc, cliSess, cliConn, cliPolls,
                   sessVars, diffVars, auxVars, daemonVars, histVars>>

\* SIGINT or SIGTERM reaches the listening daemon: the program installs no
\* handler (no signal.Notify in cmd/neocrush), so the Go runtime ends the
\* process at once and no deferred call runs
DaemonSignalled(i) ==
    /\ dmnPc[i] = "listening"
    /\ dmnPc' = [dmnPc EXCEPT ![i] = "signalled"]
    /\ UNCHANGED <<metaFile, sockFiles, nextSessID, cliPc, cliSess, cliConn, cliPolls,
                   sessVars, diffVars, auxVars, daemonVars, histVars>>

NextDaemonLife ==
    \/ NextDaemonStart
    \/ \E i \in DOMAIN dmnPc : DaemonReturn(i)
    \/ \E i \in DOMAIN dmnPc : DaemonSignalled(i)

\* SpecDaemonLife: the daemon processes of SpecDaemonStart until they end
SpecDaemonLife == InitSpecDaemonStart /\ [][NextDaemonLife]_vars

----------------------------------------------------------------------------
(* Spec: the running daemon.                                               *)
(* Names and roles are character sequences so that identifyClientName can  *)
(* be computed; the empty sequence is Go's "".  pc[c] is the position of   *)
(* the handler of connection c: "free" (not accepted yet), "open" (in the  *)
(* scan loop), "cleanup" (in the deferred function, after the unlock) and  *)
(* "closed" (returned); clientName[c] is its local variable.               *)
Uppers == <<"A","B","C","D","E","F","G","H","I","J","K","L","M",
            "N","O","P","Q","R","S","T","U","V","W","X","Y","Z">>
Lowers == <<"a","b","c","d","e","f","g","h","i","j","k","l","m",
            "n","o","p","q","r","s","t","u","v","w","x","y","z">>
LowerChar(ch) ==
    IF \E k \in 1..26 : Uppers[k] = ch
    THEN Lowers[CHOOSE k \in 1..26 : Uppers[k] = ch] ELSE ch
ToLower(str) == [k \in 1..Len(str) |-> LowerChar(str[k])]
Contains(str, sub) ==
    \E k \in 0..(Len(str) - Len(sub)) : SubSeq(str, k + 1, k + Len(sub)) = sub

sNeovim == <<"n","e","o","v","i","m">>
sNvim == <<"n","v","i","m">>
sVim == <<"v","i","m">>
sCrush == <<"c","r","u","s","h">>
sPowernap == <<"p","o","w","e","r","n","a","p">>
sUnknown == <<"u","n","k","n","o","w","n">>
sMcp == <<"m","c","p">>

identifyClientName(name) ==
    LET nameLower == ToLower(name)
    IN IF Contains(nameLower, sVim) \/ Contains(nameLower, sNvim) \/ Contains(nameLower, sNeovim)
       THEN sNeovim
       ELSE IF Contains(nameLower, sCrush) \/ Contains(nameLower, sPowernap)
       THEN sCrush
       ELSE IF name = <<>> THEN sUnknown ELSE name

\* clientInfo.name values sent by clients
InputNames == {<<"N","e","o","v","i","m">>, <<"C","r","u","s","h">>, <<"z","e","d">>}

FileURI == "file:///a.txt"
URIs == {FileURI}
Hello0 == <<"hello", NL, "world", NL>>
Hello1 == <<"hello", NL, "WORLD", NL>>
DocTexts == {Hello0, Hello1}

\* a JSON-RPC message: the fields the daemon reads or writes; id 0 is "no id";
\* raw holds the bytes of a frame whose body the daemon cannot decode
Msg0 == [method |-> "", id |-> 0, uri |-> "", text |-> <<>>, changes |-> <<>>,
         name |-> <<>>, edits |-> <<>>, result |-> "", line |-> 0, column |-> 0,
         context |-> <<>>, raw |-> <<>>]

InitializeFrames == {[Msg0 EXCEPT !.method = "initialize", !.id = 1, !.name = n] : n \in InputNames}
DidOpenFrames ==
    {[Msg0 EXCEPT !.method = "textDocument/didOpen", !.uri = u, !.text = t] : u \in URIs, t \in DocTexts}
DidChangeFrames ==
    {[Msg0 EXCEPT !.method = "textDocument/didChange", !.uri = u, !.changes = ch] :
        u \in URIs, ch \in {<<>>} \cup {<<t>> : t \in DocTexts}}
DidCloseFrames == {[Msg0 EXCEPT !.method = "textDocument/didClose", !.uri = u] : u \in URIs}
ResponseFrames == {[Msg0 EXCEPT !.id = k] : k \in 1..MaxRequests}
RequestFrames == {[Msg0 EXCEPT !.method = "workspace/symbol", !.id = 1]}
ToolFrames == {[Msg0 EXCEPT !.method = "crush/getEditorContext", !.id = 1],
               [Msg0 EXCEPT !.method = "crush/showLocations"]}
InitializedFrames == {[Msg0 EXCEPT !.method = "initialized"]}
Frames ==
    InitializeFrames \cup DidOpenFrames \cup DidChangeFrames \cup DidCloseFrames
    \cup ResponseFrames \cup RequestFrames \cup ToolFrames \cup InitializedFrames

\* frames that carry a cursor position or a selection (delivered in SpecCtx)
CursorLines == (0 - 1)..MaxCursorLine
CursorColumns == {0, MaxCursorLine}
Selection == <<"s", "e", "l">>
PositionFrames ==
    {[Msg0 EXCEPT !.method = "textDocument/hover", !.id = 1, !.uri = u, !.line = l, !.column = k] :
        u \in URIs, l \in CursorLines, k \in CursorColumns}
CursorFrames ==
    {[Msg0 EXCEPT !.method = "crush/cursorMoved", !.uri = u, !.line = l, !.column = k] :
        u \in URIs, l \in CursorLines, k \in CursorColumns}
SelectionFrames ==
    {[Msg0 EXCEPT !.method = "crush/selectionChanged", !.uri = u, !.text = t] :
        u \in URIs \cup {""}, t \in {<<>>, Selection}}

\* outcome of os.ReadFile at the URI's path: nothing (error) or the file's text
DiskReads == {<<>>} \cup {<<t>> : t \in DocTexts}

IsToolMethod(m) == m = "crush/getEditorContext" \/ m = "crush/showLocations"

\* Go map operations on clients (role -> connection) and documentState
MapSet(m, k, v) == [x \in DOMAIN m \cup {k} |-> IF x = k THEN v ELSE m[x]]
MapDelete(m, k) == [x \in DOMAIN m \ {k} |-> m[x]]

\* one write: the connection whose handler wrote, the frame it was handling,
\* the connection written to and the frame written
Write(from, frame, to, msg) == [from |-> from, frame |-> frame, to |-> to, msg |-> msg]

\* written observes the frames the last step wrote, with their destinations
NoFrame == <<>>

InitDaemon ==
    /\ listenerOpen = TRUE
    /\ daemonPc = "accepting"
    /\ pc = [c \in 1..MaxConns |-> "free"]
    /\ clientName = [c \in 1..MaxConns |-> <<>>]
    /\ clients = <<>>
    /\ requestID = 0
    /\ pendingRequests = {}
    /\ documentState = <<>>
    /\ neovimOpenDocs = {}
    /\ consumed = [k \in 1..MaxRequests |-> 0]
    /\ written = NoFrame
    /\ cursorURI = "" /\ cursorLine = 0 /\ cursorColumn = 0 /\ selectionText = <<>>
    /\ histOn = FALSE
    /\ editorOrder = <<>>
    /\ editorOpened = <<>>
    /\ lastAgentChange = <<>>

\* SpecHist starts like Spec and records the history variables:
\* editorOrder, the open connections identified as Neovim in the order of
\* their initialize requests; editorOpened, the text of the textDocument/didOpen
\* the editor sent for each URI the agent has not changed since; and
\* lastAgentChange, the text of the last textDocument/didChange a Crush
\* connection sent for each URI
InitHist ==
    /\ listenerOpen = TRUE
    /\ daemonPc = "accepting"
    /\ pc = [c \in 1..MaxHistConns |-> "free"]
    /\ clientName = [c \in 1..MaxHistConns |-> <<>>]
    /\ clients = <<>>
    /\ requestID = 0
    /\ pendingRequests = {}
    /\ documentState = <<>>
    /\ neovimOpenDocs = {}
    /\ consumed = [k \in 1..MaxRequests |-> 0]
    /\ written = NoFrame
    /\ cursorURI = "" /\ cursorLine = 0 /\ cursorColumn = 0 /\ selectionText = <<>>
    /\ histOn = TRUE
    /\ editorOrder = <<>>
    /\ editorOpened = <<>>
    /\ lastAgentChange = <<>>

Without(seq, c) == SelectSeq(seq, LAMBDA x : x # c)

\* Daemon.run: listener.Accept succeeded, go d.handleClient(conn)
Accept(c) ==
    /\ daemonPc = "accepting" /\ listenerOpen
    /\ pc[c] = "free"
    /\ \A b \in Conns : b < c => pc[b] # "free"
    /\ pc' = [pc EXCEPT ![c] = "open"]
    /\ written' = NoFrame
    /\ UNCHANGED <<listenerOpen, daemonPc, clientName, clients, requestID, pendingRequests,
                   documentState, neovimOpenDocs, consumed, cursorVars, diffVars, auxVars, launchVars, histVars>>

\* Daemon.run: listener.Accept failed (listener closed), run returns and the
\* process ends with all its connection handlers
AcceptError ==
    /\ daemonPc = "accepting" /\ ~listenerOpen
    /\ daemonPc' = "exited"
    /\ pc' = [c \in Conns |-> IF pc[c] \in {"open", "cleanup"} THEN "closed" ELSE pc[c]]
    /\ clientName' = [c \in Conns |-> <<>>]
    /\ written' = NoFrame
    /\ editorOrder' = <<>>
    /\ editorOpened' = <<>>
    /\ UNCHANGED <<listenerOpen, clients, requestID, pendingRequests, documentState,
                   neovimOpenDocs, consumed, cursorVars, diffVars, auxVars, launchVars, histOn, lastAgentChange>>

\* handleInitialize's reply and handleGetEditorContext's reply
InitializeResponse(f) == [Msg0 EXCEPT !.id = f.id, !.result = "initialize"]
\* extractFilename: the part of the URI's path after its last "/"
extractFilename(uri) == IF uri = FileURI THEN "a.txt" ELSE ""

Max(a, b) == IF a > b THEN a ELSE b

\* lines before and after the cursor line that handleGetEditorContext returns
ContextRadius == 5

\* an exclusive end one line too far
EndLine_wide(line, n) == Min(line + ContextRadius + 2, n)
\* endLine := line + 6 (exclusive), clamped to len(lines)
EndLine(line, n) == Min(line + ContextRadius + 1, n)

\* handleGetEditorContext: panic is the index-out-of-range panic of
\* lines[line]; otherwise msg is the response written to the requester
handleGetEditorContext(f) ==
    LET uri == cursorURI
        line == cursorLine
        hasDoc == uri \in DOMAIN documentState
        lines == IF hasDoc THEN Split(documentState[uri]) ELSE <<>>
        n == Len(lines)
        startLine == Max(line - ContextRadius, 0)
        endLine == EndLine(line, n)
        beforeEnd == Min(line, n)
        beforeLines == IF startLine < beforeEnd THEN Slice(lines, startLine, beforeEnd) ELSE <<>>
        afterLines == IF line + 1 < endLine THEN Slice(lines, line + 1, endLine) ELSE <<>>
        result == [uri |-> uri,
                   filename |-> extractFilename(uri),
                   cursor_line |-> line,
                   cursor_column |-> cursorColumn,
                   has_selection |-> selectionText # <<>>,
                   selection |-> selectionText,
                   total_lines |-> n,
                   context_before |-> Join(beforeLines),
                   context_line |-> IF hasDoc /\ 0 <= line /\ line < n THEN At(lines, line) ELSE <<>>,
                   context_after |-> Join(afterLines)]
    IN [panic |-> hasDoc /\ line < 0,
        msg |-> [Msg0 EXCEPT !.id = f.id, !.result = "editorContext", !.context = <<result>>]]

EditorContextResponse(f) == handleGetEditorContext(f).msg

Alive(c) == daemonPc = "accepting" /\ pc[c] = "open"

\* handleClient: crush/getEditorContext or crush/showLocations (registers an
\* unidentified connection as "mcp"); forwardToNeovim for showLocations
\* a forward that answers the sender instead
forwardToNeovim_toSender(cl, c, f) == <<Write(c, f, c, f)>>
\* forwardToNeovim: the frame as it arrived, to the connection registered
\* as "neovim"; nothing when there is none
forwardToNeovim(cl, c, f) ==
    IF sNeovim \in DOMAIN cl THEN <<Write(c, f, cl[sNeovim], f)>> ELSE <<>>

\* An unrecovered panic in a handler goroutine ends the process: the
\* listener and every connection are closed by the operating system
ToolQuery(c, f) ==
    /\ Alive(c)
    /\ IsToolMethod(f.method)
    /\ LET first == clientName[c] = <<>>
           cl == IF first THEN MapSet(clients, sMcp, c) ELSE clients
           wr == IF f.method = "crush/getEditorContext"
                 THEN <<Write(c, f, c, EditorContextResponse(f))>>
                 ELSE forwardToNeovim(cl, c, f)
       IN IF f.method = "crush/getEditorContext" /\ handleGetEditorContext(f).panic
          THEN /\ daemonPc' = "crashed"
               /\ listenerOpen' = FALSE
               /\ pc' = [b \in Conns |-> IF pc[b] \in {"open", "cleanup"} THEN "closed" ELSE pc[b]]
               /\ clientName' = [b \in Conns |-> <<>>]
               /\ clients' = cl
               /\ written' = <<>>
               /\ editorOrder' = <<>>
               /\ editorOpened' = <<>>
          ELSE /\ clientName' = IF first THEN [clientName EXCEPT ![c] = sMcp] ELSE clientName
               /\ clients' = cl
               /\ written' = wr
               /\ UNCHANGED <<listenerOpen, daemonPc, pc, editorOrder, editorOpened>>
    /\ UNCHANGED <<requestID, pendingRequests, documentState, neovimOpenDocs, consumed,
                   cursorVars, diffVars, auxVars, launchVars, histOn, lastAgentChange>>

\* handleClient with clientName == "": handleInitialize, then registration
Identify(c, f) ==
    /\ Alive(c)
    /\ ~IsToolMethod(f.method)
    /\ clientName[c] = <<>>
    /\ IF f.method = "initialize"
       THEN LET nm == identifyClientName(f.name)
            IN /\ clientName' = [clientName EXCEPT ![c] = nm]
               /\ clients' = IF nm # <<>> THEN MapSet(clients, nm, c) ELSE clients
               /\ written' = <<Write(c, f, c, InitializeResponse(f))>>
               /\ editorOrder' = IF histOn /\ nm = sNeovim
                                 THEN Append(editorOrder, c) ELSE editorOrder
       ELSE /\ UNCHANGED <<clientName, clients, editorOrder>>
            /\ written' = <<>>
    /\ UNCHANGED <<listenerOpen, daemonPc, pc, requestID, pendingRequests, documentState,
                   neovimOpenDocs, consumed, cursorVars, diffVars, auxVars, launchVars,
                   histOn, editorOpened, lastAgentChange>>

\* handleClient: the "initialized" notification is dropped
Initialized(c, f) ==
    /\ Alive(c)
    /\ clientName[c] # <<>>
    /\ f.method = "initialized"
    /\ written' = <<>>
    /\ UNCHANGED <<listenerOpen, daemonPc, pc, clientName, clients, requestID, pendingRequests,
                   documentState, neovimOpenDocs, consumed, cursorVars, diffVars, auxVars, launchVars, histVars>>

trackNeovimDocuments(open, f) ==
    IF f.method = "textDocument/didOpen" /\ f.uri # "" THEN open \cup {f.uri}
    ELSE IF f.method = "textDocument/didClose" /\ f.uri # "" THEN open \ {f.uri}
    ELSE open

\* handleClient: a response from Neovim to one of the daemon's own requests
IsPendingResponse(c, f) ==
    clientName[c] = sNeovim /\ f.method = "" /\ f.id > 0 /\ f.id \in pendingRequests

\* a filter that leaves the id in the table
DeletePending_keep(pending, id) == pending
\* delete(d.pendingRequests, resp.ID)
DeletePending(pending, id) == pending \ {id}

ConsumeResponse(c, f) ==
    /\ Alive(c)
    /\ clientName[c] # <<>>
    /\ ~IsToolMethod(f.method) /\ f.method # "initialized"
    /\ IsPendingResponse(c, f)
    /\ pendingRequests' = DeletePending(pendingRequests, f.id)
    /\ consumed' = [consumed EXCEPT ![f.id] = Min(consumed[f.id] + 1, 2)]  \* 2: more than once
    /\ written' = <<>>
    /\ UNCHANGED <<listenerOpen, daemonPc, pc, clientName, clients, requestID,
                   documentState, neovimOpenDocs, cursorVars, diffVars, auxVars, launchVars, histVars>>

\* uriToPath succeeds for file:// URIs
IsFileURI(u) == u = FileURI

\* didChangeToApplyEdit: the state it leaves and the request it returns
\* (emit = FALSE is the nil return); disk is the outcome of os.ReadFile
didChangeToApplyEdit(f, disk) ==
    IF Len(f.changes) = 0
    THEN [emit |-> FALSE, docs |-> documentState, edits |-> <<>>]
    ELSE LET newT == f.changes[1]
             uri == f.uri
             hasOld == uri \in DOMAIN documentState
             neovimHasFile == uri \in neovimOpenDocs
             oldT == IF hasOld THEN documentState[uri]
                     ELSE IF IsFileURI(uri) /\ disk # <<>> THEN disk[1] ELSE <<>>
             realEdits == computeLineEdits(oldT, newT)
             edits == IF neovimHasFile THEN realEdits ELSE NoOpEdits(realEdits, newT)
         IN [emit |-> Len(realEdits) # 0,
             docs |-> MapSet(documentState, uri, newT),
             edits |-> edits]

ApplyEditRequest(id, uri, edits) ==
    [Msg0 EXCEPT !.method = "workspace/applyEdit", !.id = id, !.uri = uri, !.edits = edits]

\* a router that looks the sender's own role up
PeerOf_same(from) == from
\* forwardToPeer's switch on the sender's role
PeerOf(from) ==
    IF from = sNeovim THEN sCrush ELSE IF from = sCrush THEN sNeovim ELSE <<>>

\* the frames for which didChangeToApplyEdit reads the file from disk
NeedsDisk(c, f) ==
    /\ clientName[c] = sCrush /\ sNeovim \in DOMAIN clients
    /\ f.method = "textDocument/didChange" /\ Len(f.changes) > 0
    /\ f.uri \notin DOMAIN documentState

\* the history variables after connection c sent frame f on the default path
EditorOpenedAfter(c, f) ==
    IF ~histOn THEN editorOpened
    ELSE IF clientName[c] = sNeovim /\ f.method = "textDocument/didOpen"
    THEN MapSet(editorOpened, f.uri, f.text)
    ELSE IF \/ clientName[c] = sNeovim /\ f.method = "textDocument/didClose"
            \/ clientName[c] = sCrush /\ f.method = "textDocument/didChange"
               /\ Len(f.changes) > 0
    THEN MapDelete(editorOpened, f.uri)
    ELSE editorOpened

LastAgentChangeAfter(c, f) ==
    IF histOn /\ clientName[c] = sCrush /\ f.method = "textDocument/didChange"
       /\ Len(f.changes) > 0
    THEN MapSet(lastAgentChange, f.uri, f.changes[1]) ELSE lastAgentChange

\* trackCursorFromRequest: a request of Neovim that carries a position
\* (textDocument/hover stands for the seven methods) moves the cursor
TracksCursor(c, f) ==
    clientName[c] = sNeovim /\ f.method = "textDocument/hover" /\ f.uri # ""

\* handleCursorMoved: the position is stored as it arrived
CursorMoved(c, f) ==
    /\ Alive(c)
    /\ clientName[c] # <<>>
    /\ f.method = "crush/cursorMoved"
    /\ cursorURI' = f.uri
    /\ cursorLine' = f.line
    /\ cursorColumn' = f.column
    /\ written' = <<>>
    /\ UNCHANGED <<listenerOpen, daemonPc, pc, clientName, clients, requestID, pendingRequests,
                   documentState, neovimOpenDocs, consumed, selectionText,
                   diffVars, auxVars, launchVars, histVars>>

\* handleSelectionChanged
SelectionChanged(c, f) ==
    /\ Alive(c)
    /\ clientName[c] # <<>>
    /\ f.method = "crush/selectionChanged"
    /\ selectionText' = f.text
    /\ cursorURI' = IF f.uri # "" THEN f.uri ELSE cursorURI
    /\ written' = <<>>
    /\ UNCHANGED <<listenerOpen, daemonPc, pc, clientName, clients, requestID, pendingRequests,
                   documentState, neovimOpenDocs, consumed, cursorLine, cursorColumn,
                   diffVars, auxVars, launchVars, histVars>>

\* handleClient's default path: trackCursorFromRequest and
\* trackNeovimDocuments for Neovim, then forwardToPeer with
\* transformCrushToNeovim
Forward(c, f, disk) ==
    /\ Alive(c)
    /\ clientName[c] # <<>>
    /\ ~IsToolMethod(f.method) /\ f.method # "initialized"
    /\ f.method \notin {"crush/cursorMoved", "crush/selectionChanged"}
    /\ ~IsPendingResponse(c, f)
    /\ NeedsDisk(c, f) \/ disk = <<>>
    /\ IF TracksCursor(c, f)
       THEN cursorURI' = f.uri /\ cursorLine' = f.line /\ cursorColumn' = f.column
       ELSE UNCHANGED <<cursorURI, cursorLine, cursorColumn>>
    /\ neovimOpenDocs' = IF clientName[c] = sNeovim
                         THEN trackNeovimDocuments(neovimOpenDocs, f) ELSE neovimOpenDocs
    /\ LET from == clientName[c]
           peerName == PeerOf(from)
           hasPeer == peerName # <<>> /\ peerName \in DOMAIN clients
           transform == hasPeer /\ from = sCrush /\ f.method = "textDocument/didChange"
           res == didChangeToApplyEdit(f, disk)
       IN IF transform
          THEN /\ documentState' = res.docs
               /\ IF res.emit
                  THEN /\ requestID < MaxRequests
                       /\ requestID' = requestID + 1
                       /\ pendingRequests' = pendingRequests \cup {requestID + 1}
                       /\ written' = <<Write(c, f, clients[peerName],
                                        ApplyEditRequest(requestID + 1, f.uri, res.edits))>>
                  ELSE /\ UNCHANGED <<requestID, pendingRequests>>
                       /\ written' = <<>>
          ELSE /\ UNCHANGED <<documentState, requestID, pendingRequests>>
               /\ written' = IF hasPeer /\ ~(from = sCrush /\ f.method \in
                                        {"textDocument/didOpen", "textDocument/didClose"})
                             THEN <<Write(c, f, clients[peerName], f)>> ELSE <<>>
    /\ editorOpened' = EditorOpenedAfter(c, f)
    /\ lastAgentChange' = LastAgentChangeAfter(c, f)
    /\ UNCHANGED <<listenerOpen, daemonPc, pc, clientName, clients, consumed,
                   selectionText, diffVars, auxVars, launchVars, histOn, editorOrder>>

\* handleClient: scanner.Scan returns false (end of stream or read error);
\* the deferred function deletes the client's entry under the lock
Disconnect(c) ==
    /\ Alive(c)
    /\ IF clientName[c] # <<>>
       THEN /\ clients' = MapDelete(clients, clientName[c])
            /\ pc' = [pc EXCEPT ![c] = "cleanup"]
       ELSE /\ UNCHANGED clients
            /\ pc' = [pc EXCEPT ![c] = "closed"]
    /\ written' = NoFrame
    /\ editorOrder' = Without(editorOrder, c)
    /\ editorOpened' = IF clientName[c] = sNeovim THEN <<>> ELSE editorOpened
    /\ UNCHANGED <<listenerOpen, daemonPc, clientName, requestID, pendingRequests, documentState,
                   neovimOpenDocs, consumed, cursorVars, diffVars, auxVars, launchVars, histOn, lastAgentChange>>

\* a cleanup that never finds the table empty
LastClientLeft_never(cl) == FALSE
\* len(d.clients) == 0, read after the unlock
LastClientLeft(cl) == DOMAIN cl = {}

\* the deferred function after the unlock: len(d.clients) == 0 closes the
\* listener; then conn.Close
CleanupCheck(c) ==
    /\ daemonPc = "accepting" /\ pc[c] = "cleanup"
    /\ listenerOpen' = IF LastClientLeft(clients) THEN FALSE ELSE listenerOpen
    /\ pc' = [pc EXCEPT ![c] = "closed"]
    /\ clientName' = [clientName EXCEPT ![c] = <<>>]
    /\ written' = NoFrame
    /\ UNCHANGED <<daemonPc, clients, requestID, pendingRequests, documentState,
                   neovimOpenDocs, consumed, cursorVars, diffVars, auxVars, launchVars, histVars>>

Next ==
    \/ \E c \in Conns : Accept(c)
    \/ AcceptError
    \/ \E c \in Conns, f \in ToolFrames : ToolQuery(c, f)
    \/ \E c \in Conns, f \in Frames \ ToolFrames : Identify(c, f)
    \/ \E c \in Conns, f \in InitializedFrames : Initialized(c, f)
    \/ \E c \in Conns, f \in ResponseFrames : ConsumeResponse(c, f)
    \/ \E c \in Conns, f \in Frames \ (ToolFrames \cup InitializedFrames), disk \in DiskReads :
           Forward(c, f, disk)
    \/ \E c \in Conns : Disconnect(c)
    \/ \E c \in Conns : CleanupCheck(c)

\* SpecCtx: the daemon of Spec whose clients also send cursor positions
\* and selections
NextCtx ==
    \/ Next
    \/ \E c \in Conns, f \in CursorFrames : CursorMoved(c, f)
    \/ \E c \in Conns, f \in SelectionFrames : SelectionChanged(c, f)
    \/ \E c \in Conns, f \in PositionFrames : Forward(c, f, <<>>)

\* SpecContext: tool queries against a daemon that an editor has left
\* behind with a cursor position and, possibly, a cached document of up to
\* MaxCtxLines lines (with or without a final newline); connection 1 is a
\* registered tool client
LineNames == <<"L0", "L1", "L2", "L3", "L4", "L5", "L6", "L7", "L8", "L9",
               "L10", "L11", "L12", "L13", "L14", "L15">>
CtxDoc(n, final) ==
    Join([i \in 1..n |-> <<LineNames[i]>>]) \o (IF final THEN <<NL>> ELSE <<>>)
CtxDocs == {CtxDoc(n, final) : n \in 0..MaxCtxLines, final \in BOOLEAN}

InitContext ==
    /\ listenerOpen = TRUE
    /\ daemonPc = "accepting"
    /\ pc = [c \in 1..MaxConns |-> IF c = 1 THEN "open" ELSE "closed"]
    /\ clientName = [c \in 1..MaxConns |-> IF c = 1 THEN sMcp ELSE <<>>]
    /\ clients = MapSet(<<>>, sMcp, 1)
    /\ requestID = 0
    /\ pendingRequests = {}
    /\ \E cached \in {<<>>} \cup {<<d>> : d \in CtxDocs} :
          /\ documentState = IF cached = <<>> THEN <<>> ELSE MapSet(<<>>, FileURI, cached[1])
          /\ neovimOpenDocs = IF cached = <<>> THEN {} ELSE {FileURI}
    /\ consumed = [k \in 1..MaxRequests |-> 0]
    /\ written = NoFrame
    /\ cursorURI = FileURI
    /\ cursorLine \in (0 - 1)..(MaxCtxLines + 1)
    /\ cursorColumn = 0
    /\ selectionText = <<>>
    /\ histOn = FALSE
    /\ editorOrder = <<>>
    /\ editorOpened = <<>>
    /\ lastAgentChange = <<>>

NextContext == \E c \in Conns, f \in ToolFrames : ToolQuery(c, f)
InitSpecContext == InitContext /\ DiffIdle /\ LaunchIdle /\ AuxIdle
SpecContext == InitSpecContext /\ [][NextContext]_vars

\* SpecIdentify: connections whose first frame is an initialize request
\* with one of IdentifyNames as clientInfo.name, or a textDocument/didOpen
IdentifyNames ==
    {<<>>,
     <<"N","e","o","v","i","m">>, <<"n","v","i","m">>, <<"v","i","m">>, <<"V","i","m">>,
     <<"M","a","c","V","I","M">>,
     <<"C","r","u","s","h">>, <<"c","r","u","s","h">>, <<"C","R","U","S","H"," ","1">>,
     <<"p","o","w","e","r","n","a","p">>,
     <<"v","s","c","o","d","e">>, <<"Z","e","d">>}
IdentifyFrames ==
    {[Msg0 EXCEPT !.method = "initialize", !.id = 1, !.name = n] : n \in IdentifyNames}
    \cup DidOpenFrames
NextIdentify ==
    \/ \E c \in Conns : Accept(c)
    \/ \E c \in Conns, f \in IdentifyFrames : Identify(c, f)

InitSpec == InitDaemon /\ DiffIdle /\ LaunchIdle /\ AuxIdle
SpecCtx == InitSpec /\ [][NextCtx]_vars
SpecIdentify == InitSpec /\ [][NextIdentify]_vars
InitSpecHist == InitHist /\ DiffIdle /\ LaunchIdle /\ AuxIdle
Spec == InitSpec /\ [][Next]_vars
SpecHist == InitSpecHist /\ [][Next]_vars

\* SpecAnswers: Spec whose clients also send responses that carry a result;
\* the result names the method of the request the response answers
\* (workspace/symbol requests come from the agent, workspace/applyEdit
\* requests from the daemon)
AnswerFrames ==
    {[Msg0 EXCEPT !.id = k, !.result = m] :
        k \in 1..MaxRequests, m \in {"workspace/symbol", "workspace/applyEdit"}}
NextAnswers ==
    \/ Next
    \/ \E c \in Conns, f \in AnswerFrames : ConsumeResponse(c, f)
    \/ \E c \in Conns, f \in AnswerFrames : Forward(c, f, <<>>)
SpecAnswers == InitSpec /\ [][NextAnswers]_vars

\* a handler that has reached its deferred function finishes it, and the
\* accept loop notices a closed listener
FairSpec ==
    /\ Spec
    /\ \A c \in 1..MaxConns : WF_vars(CleanupCheck(c))
    /\ WF_vars(AcceptError)

NextDiff == RealDiff \/ NoOpDiff
InitSpecDiff == InitDiff /\ LaunchIdle /\ DaemonIdle /\ AuxIdle
SpecDiff == InitSpecDiff /\ [][NextDiff]_vars

----------------------------------------------------------------------------
(* SpecHandler: the protocol handler of internal/daemon (Handler) over the  *)
(* shared state of one session (State: documents and per-client cursors).   *)
(* hWritten holds what the last step wrote, each write with the client      *)
(* whose frame was being handled.                                           *)
ClientTypeNeovim == "neovim"
ClientTypeCrush == "crush"

\* ServeNeovim / ServeCrush: client IDs "neovim-<session>" and "crush-<session>"
HClientIDs == {ClientTypeNeovim, ClientTypeCrush}

HURIs == {"a"}
HTexts == {"x", "y"}
HVersions == 1..MaxVersion
HPositions == {<<0, 0>>, <<3, 7>>}
RECURSIVE ChangesOfLen(_)
ChangesOfLen(n) ==
    IF n = 0 THEN {<<>>}
    ELSE {Append(cs, t) : cs \in ChangesOfLen(n - 1), t \in HTexts}
ContentChanges == UNION {ChangesOfLen(n) : n \in 0..MaxChanges}

Subscriptions(d, c, f) == [DocumentChanges |-> d, CursorChanges |-> c, FocusChanges |-> f]

HWrite(from, to, method) == [from |-> from, to |-> to, method |-> method]
Sent(from, tos, method) == {HWrite(from, to, method) : to \in tos}

\* State.OpenDocument: s.documents[uri] = NewDocument(uri, text, languageID, version)
OpenDocument(docs, uri, text, version) ==
    [u \in DOMAIN docs \cup {uri} |->
        IF u = uri THEN [Content |-> text, Version |-> version] ELSE docs[u]]

\* State.UpdateDocument: SetContent on the stored document, or a new document
UpdateDocument(docs, uri, text, version) ==
    [u \in DOMAIN docs \cup {uri} |->
        IF u = uri THEN [Content |-> text, Version |-> version] ELSE docs[u]]

\* the loop of handleDidChange over ContentChanges, from change i on
RECURSIVE UpdateAll(_, _, _, _, _)
UpdateAll(docs, uri, changes, version, i) ==
    IF i > Len(changes) THEN docs
    ELSE UpdateAll(UpdateDocument(docs, uri, changes[i], version), uri, changes, version, i + 1)

\* State.UpdateCursor / UpdateCursorWithSelection
UpdateCursor(cursors, clientID, uri, position, source) ==
    [c \in DOMAIN cursors \cup {clientID} |->
        IF c = clientID
        THEN [URI |-> uri, Line |-> position[1], Character |-> position[2], Source |-> source]
        ELSE cursors[c]]

CursorSourceCustom == "crush/cursorMoved"

\* the recipients of the three broadcasts
broadcastDocumentChanged(cl) == {c \in DOMAIN cl : cl[c].DocumentChanges}
broadcastCursorChanged(cl, sourceClientID) ==
    {c \in DOMAIN cl : c # sourceClientID /\ cl[c].CursorChanges}
broadcastFocusChanged(cl) == {c \in DOMAIN cl : cl[c].FocusChanges}

HandlerRest == UNCHANGED <<diffVars, launchVars, daemonVars, histVars, detectVars, moreVars>>
HandlerUnchanged == HandlerRest /\ UNCHANGED hRequestID

\* the handler allocates at most MaxHRequests request ids
MaxHRequests == 2
\* h.requestID.Add(1): the atomic increment returns the new value
NextRequestID_same(id) == id
NextRequestID(id) == id + 1

\* Handler.AddClient (ServeNeovim, ServeCrush): h.clients[client.ID] = client
AddClient(c) ==
    /\ hClients' = [x \in DOMAIN hClients \cup {c} |->
                        IF x = c THEN Subscriptions(FALSE, FALSE, FALSE) ELSE hClients[x]]
    /\ hWritten' = {}
    /\ UNCHANGED <<hDocuments, hCursors, focusedURI>>
    /\ HandlerUnchanged

\* Handler.RemoveClient, deferred by ServeNeovim / ServeCrush
RemoveClient(c) ==
    /\ c \in DOMAIN hClients
    /\ hClients' = [x \in DOMAIN hClients \ {c} |-> hClients[x]]
    /\ hWritten' = {}
    /\ UNCHANGED <<hDocuments, hCursors, focusedURI>>
    /\ HandlerUnchanged

\* Handler.handleSubscribe
handleSubscribe(c, d, cu, f) ==
    /\ c \in DOMAIN hClients
    /\ hClients' = [hClients EXCEPT ![c] = Subscriptions(d, cu, f)]
    /\ hWritten' = {HWrite(c, c, "response")}
    /\ UNCHANGED <<hDocuments, hCursors, focusedURI>>
    /\ HandlerUnchanged

\* Handler.handleDidOpen
handleDidOpen(c, uri, text, version) ==
    /\ c \in DOMAIN hClients
    /\ hDocuments' = OpenDocument(hDocuments, uri, text, version)
    /\ focusedURI' = uri
    /\ hWritten' = {HWrite(c, c, "textDocument/publishDiagnostics")}
                   \cup Sent(c, broadcastDocumentChanged(hClients), "crush/documentChanged")
                   \cup Sent(c, broadcastFocusChanged(hClients), "crush/focusChanged")
    /\ UNCHANGED <<hClients, hCursors>>
    /\ HandlerUnchanged

\* Handler.handleDidChange
handleDidChange(c, uri, changes, version) ==
    /\ c \in DOMAIN hClients
    /\ hDocuments' = UpdateAll(hDocuments, uri, changes, version, 1)
    /\ hWritten' = IF changes = <<>> THEN {}
                   ELSE {HWrite(c, c, "textDocument/publishDiagnostics")}
                        \cup Sent(c, broadcastDocumentChanged(hClients), "crush/documentChanged")
    /\ UNCHANGED <<hClients, hCursors, focusedURI>>
    /\ HandlerUnchanged

\* the methods HandleMessage dispatches to handleHover, handleCompletion,
\* handleDefinition, handleDocumentHighlight and handleCodeAction
HandledPositionMethods ==
    {"textDocument/hover", "textDocument/completion", "textDocument/definition",
     "textDocument/documentHighlight", "textDocument/codeAction"}
PositionMethods ==
    HandledPositionMethods \cup {"textDocument/references", "textDocument/signatureHelp"}

\* Handler.HandleMessage for a position-carrying request (for codeAction the
\* position is params.range.start); methods without a case are logged as
\* unknown and change nothing
HandlePosition(c, method, uri, position) ==
    /\ c \in DOMAIN hClients
    /\ IF method \in HandledPositionMethods
       THEN /\ hCursors' = UpdateCursor(hCursors, c, uri, position, method)
            /\ hWritten' = {HWrite(c, c, "response")}
                           \cup IF method = "textDocument/codeAction" THEN {}
                                ELSE Sent(c, broadcastCursorChanged(hClients, c), "crush/cursorMoved")
       ELSE /\ hWritten' = {}
            /\ UNCHANGED hCursors
    /\ UNCHANGED <<hClients, hDocuments, focusedURI>>
    /\ HandlerUnchanged

\* Handler.handleCursorMoved
HandlerCursorMoved(c, uri, position) ==
    /\ c \in DOMAIN hClients
    /\ hCursors' = UpdateCursor(hCursors, c, uri, position, CursorSourceCustom)
    /\ focusedURI' = uri
    /\ hWritten' = Sent(c, broadcastCursorChanged(hClients, c), "crush/cursorMoved")
    /\ UNCHANGED <<hClients, hDocuments>>
    /\ HandlerUnchanged

\* Handler.handleFocusFile
handleFocusFile(c, uri) ==
    /\ c \in DOMAIN hClients
    /\ focusedURI' = uri
    /\ IF ClientTypeNeovim \in DOMAIN hClients
       THEN /\ hRequestID < MaxHRequests
            /\ hRequestID' = NextRequestID(hRequestID)
       ELSE UNCHANGED hRequestID
    /\ hWritten' = (IF ClientTypeNeovim \in DOMAIN hClients
                    THEN {HWrite(c, ClientTypeNeovim, "window/showDocument")} ELSE {})
                   \cup Sent(c, broadcastFocusChanged(hClients), "crush/focusChanged")
                   \cup {HWrite(c, c, "response")}
    /\ UNCHANGED <<hClients, hDocuments, hCursors>>
    /\ HandlerRest

NextHandler ==
    \/ \E c \in HClientIDs : AddClient(c)
    \/ \E c \in HClientIDs : RemoveClient(c)
    \/ \E c \in HClientIDs, d \in BOOLEAN, cu \in BOOLEAN, f \in BOOLEAN : handleSubscribe(c, d, cu, f)
    \/ \E c \in HClientIDs, uri \in HURIs, text \in HTexts, version \in HVersions :
           handleDidOpen(c, uri, text, version)
    \/ \E c \in HClientIDs, uri \in HURIs, changes \in ContentChanges, version \in HVersions :
           handleDidChange(c, uri, changes, version)
    \/ \E c \in HClientIDs, uri \in HURIs, position \in HPositions :
           HandlerCursorMoved(c, uri, position)
    \/ \E c \in HClientIDs, uri \in HURIs : handleFocusFile(c, uri)

\* SpecHandlerCursor: the handler's clients send position-carrying requests
\* and cursor notifications
NextHandlerCursor ==
    \/ \E c \in HClientIDs : AddClient(c)
    \/ \E c \in HClientIDs : RemoveClient(c)
    \/ \E c \in HClientIDs, d \in BOOLEAN, cu \in BOOLEAN, f \in BOOLEAN : handleSubscribe(c, d, cu, f)
    \/ \E c \in HClientIDs, method \in PositionMethods, uri \in HURIs, position \in HPositions :
           HandlePosition(c, method, uri, position)
    \/ \E c \in HClientIDs, uri \in HURIs, position \in HPositions :
           HandlerCursorMoved(c, uri, position)

InitSpecHandler == HandlerIdle /\ DiffIdle /\ LaunchIdle /\ DaemonIdle /\ DetectIdle /\ MoreIdle
SpecHandler == InitSpecHandler /\ [][NextHandler]_vars
SpecHandlerCursor == InitSpecHandler /\ [][NextHandlerCursor]_vars

\* the crush/editFile response, by the value of its applied field
EditFileResponse(applied) ==
    IF applied THEN "response applied=true" ELSE "response applied=false"

\* Handler.handleEditFile; delivered says whether the transport of the
\* editor accepted the workspace/applyEdit request
handleEditFile(c, uri, delivered) ==
    /\ c \in DOMAIN hClients
    /\ IF uri \notin DOMAIN hDocuments
       THEN /\ hWritten' = {HWrite(c, c, EditFileResponse(FALSE))}
            /\ UNCHANGED hRequestID
       ELSE IF ClientTypeNeovim \in DOMAIN hClients
       THEN /\ hRequestID < MaxHRequests
            /\ hRequestID' = NextRequestID(hRequestID)
            /\ hWritten' = IF delivered
                           THEN {HWrite(c, ClientTypeNeovim, "workspace/applyEdit"),
                                 HWrite(c, c, EditFileResponse(TRUE))}
                           ELSE {HWrite(c, c, EditFileResponse(FALSE))}
       ELSE /\ hWritten' = {HWrite(c, c, EditFileResponse(TRUE))}
            /\ UNCHANGED hRequestID
    /\ UNCHANGED <<hClients, hDocuments, hCursors, focusedURI>>
    /\ HandlerRest

\* SpecEdit: the handler's clients open documents and send crush/editFile
\* and crush/focusFile
NextEdit ==
    \/ \E c \in HClientIDs : AddClient(c)
    \/ \E c \in HClientIDs : RemoveClient(c)
    \/ \E c \in HClientIDs, uri \in HURIs, text \in HTexts, version \in HVersions :
           handleDidOpen(c, uri, text, version)
    \/ \E c \in HClientIDs, uri \in HURIs, delivered \in BOOLEAN : handleEditFile(c, uri, delivered)
    \/ \E c \in HClientIDs, uri \in HURIs : handleFocusFile(c, uri)

SpecEdit == InitSpecHandler /\ [][NextEdit]_vars

----------------------------------------------------------------------------
(* SpecConcurrent: the goroutines that serve the handler's clients, one     *)
(* step per lock region or write.  thrPc[c] is the position of the          *)
(* goroutine serving client c inside handleDidChange; hMuReaders are the    *)
(* goroutines holding h.mu for reading; stalled are the clients whose       *)
(* transport does not accept a write now; bcLast[c][u] is the content of    *)
(* the last crush/documentChanged for u that c received since it            *)
(* registered or subscribed ("" if none).                                   *)
NoneReceived == [u \in HURIs |-> ""]

InitConcurrent ==
    /\ hClients = <<>> /\ hDocuments = <<>> /\ hCursors = <<>>
    /\ focusedURI = "" /\ hWritten = {} /\ hRequestID = 0
    /\ hMuReaders = {}
    /\ thrPc = [c \in HClientIDs |-> "idle"]
    /\ thrMsg = [c \in HClientIDs |-> [uri |-> "", text |-> "", version |-> 0]]
    /\ thrTodo = [c \in HClientIDs |-> {}]
    /\ bcLast = [c \in HClientIDs |-> NoneReceived]
    /\ stalled = {}

ConcUnchanged ==
    UNCHANGED <<hCursors, focusedURI, hRequestID, diffVars, launchVars, daemonVars, histVars,
                detectVars, codecVars, serveVars, allocVars>>

\* Handler.AddClient: h.mu.Lock()
ConcAdd(c) ==
    /\ hMuReaders = {} /\ c \notin DOMAIN hClients
    /\ hClients' = [x \in DOMAIN hClients \cup {c} |->
                        IF x = c THEN Subscriptions(FALSE, FALSE, FALSE) ELSE hClients[x]]
    /\ bcLast' = [bcLast EXCEPT ![c] = NoneReceived]
    /\ hWritten' = {}
    /\ UNCHANGED <<hDocuments, hMuReaders, thrPc, thrMsg, thrTodo, stalled>>
    /\ ConcUnchanged

\* Handler.RemoveClient, deferred by the serve function: h.mu.Lock()
ConcRemove(c) ==
    /\ hMuReaders = {} /\ c \in DOMAIN hClients /\ thrPc[c] = "idle"
    /\ hClients' = [x \in DOMAIN hClients \ {c} |-> hClients[x]]
    /\ bcLast' = [bcLast EXCEPT ![c] = NoneReceived]
    /\ hWritten' = {}
    /\ UNCHANGED <<hDocuments, hMuReaders, thrPc, thrMsg, thrTodo, stalled>>
    /\ ConcUnchanged

\* Handler.handleSubscribe: client.mu only
ConcSubscribe(c, d) ==
    /\ c \in DOMAIN hClients /\ thrPc[c] = "idle"
    /\ hClients' = [hClients EXCEPT ![c] = Subscriptions(d, FALSE, FALSE)]
    /\ bcLast' = [bcLast EXCEPT ![c] = NoneReceived]
    /\ hWritten' = {HWrite(c, c, "response")}
    /\ UNCHANGED <<hDocuments, hMuReaders, thrPc, thrMsg, thrTodo, stalled>>
    /\ ConcUnchanged

\* handleDidChange, one content change: h.state.UpdateDocument (under the
\* state's own lock) and sendDiagnostics
DidChangeUpdate(c, uri, text, version) ==
    /\ c \in DOMAIN hClients /\ thrPc[c] = "idle"
    /\ hDocuments' = UpdateDocument(hDocuments, uri, text, version)
    /\ thrPc' = [thrPc EXCEPT ![c] = "updated"]
    /\ thrMsg' = [thrMsg EXCEPT ![c] = [uri |-> uri, text |-> text, version |-> version]]
    /\ hWritten' = {HWrite(c, c, "textDocument/publishDiagnostics")}
    /\ UNCHANGED <<hClients, hMuReaders, thrTodo, bcLast, stalled>>
    /\ ConcUnchanged

\* broadcastDocumentChanged: h.mu.RLock(); the loop ranges over h.clients
BroadcastRLock(c) ==
    /\ thrPc[c] = "updated"
    /\ hMuReaders' = hMuReaders \cup {c}
    /\ thrTodo' = [thrTodo EXCEPT ![c] = DOMAIN hClients]
    /\ thrPc' = [thrPc EXCEPT ![c] = "writing"]
    /\ hWritten' = {}
    /\ UNCHANGED <<hClients, hDocuments, thrMsg, bcLast, stalled>>
    /\ ConcUnchanged

\* one iteration of the loop (map order is arbitrary): shouldSend, then
\* client.Transport.Write, which returns only when the transport accepts it
BroadcastVisit(c, to) ==
    /\ thrPc[c] = "writing" /\ to \in thrTodo[c]
    /\ IF hClients[to].DocumentChanges
       THEN /\ to \notin stalled
            /\ bcLast' = [bcLast EXCEPT ![to][thrMsg[c].uri] = thrMsg[c].text]
            /\ hWritten' = {HWrite(c, to, "crush/documentChanged")}
       ELSE /\ hWritten' = {}
            /\ UNCHANGED bcLast
    /\ thrTodo' = [thrTodo EXCEPT ![c] = thrTodo[c] \ {to}]
    /\ UNCHANGED <<hClients, hDocuments, hMuReaders, thrPc, thrMsg, stalled>>
    /\ ConcUnchanged

\* the deferred h.mu.RUnlock() when the loop is over
BroadcastRUnlock(c) ==
    /\ thrPc[c] = "writing" /\ thrTodo[c] = {}
    /\ hMuReaders' = hMuReaders \ {c}
    /\ thrPc' = [thrPc EXCEPT ![c] = "idle"]
    /\ hWritten' = {}
    /\ UNCHANGED <<hClients, hDocuments, thrMsg, thrTodo, bcLast, stalled>>
    /\ ConcUnchanged

\* a client stops or resumes reading from its transport
Stall(to) ==
    /\ to \notin stalled
    /\ stalled' = stalled \cup {to}
    /\ hWritten' = {}
    /\ UNCHANGED <<hClients, hDocuments, hMuReaders, thrPc, thrMsg, thrTodo, bcLast>>
    /\ ConcUnchanged

Resume(to) ==
    /\ to \in stalled
    /\ stalled' = stalled \ {to}
    /\ hWritten' = {}
    /\ UNCHANGED <<hClients, hDocuments, hMuReaders, thrPc, thrMsg, thrTodo, bcLast>>
    /\ ConcUnchanged

NextConcurrent ==
    \/ \E c \in HClientIDs : ConcAdd(c)
    \/ \E c \in HClientIDs : ConcRemove(c)
    \/ \E c \in HClientIDs, d \in BOOLEAN : ConcSubscribe(c, d)
    \/ \E c \in HClientIDs, uri \in HURIs, text \in HTexts, version \in HVersions :
           DidChangeUpdate(c, uri, text, version)
    \/ \E c \in HClientIDs : BroadcastRLock(c)
    \/ \E c \in HClientIDs, to \in HClientIDs : BroadcastVisit(c, to)
    \/ \E c \in HClientIDs : BroadcastRUnlock(c)
    \/ \E to \in HClientIDs : Stall(to)
    \/ \E to \in HClientIDs : Resume(to)

InitSpecConcurrent ==
    InitConcurrent /\ DiffIdle /\ LaunchIdle /\ DaemonIdle /\ DetectIdle /\ CodecIdle /\ ServeIdle
    /\ AllocIdle
SpecConcurrent == InitSpecConcurrent /\ [][NextConcurrent]_vars

----------------------------------------------------------------------------
(* SpecServe: the serve loops of internal/daemon, one per client.           *)
(* servePc[c] is the loop's position: "select" before the check of          *)
(* d.ctx.Done(), "read" inside client.Transport.Read(), "cancelled" after   *)
(* return d.ctx.Err(), "failed" after the return of a read error.  served   *)
(* lists the frames handed to Handler.HandleMessage, each with whether the  *)
(* context was already cancelled when the frame arrived.                    *)
MaxServed == 3

InitServe ==
    /\ ctxDone = FALSE
    /\ servePc = [c \in HClientIDs |-> "select"]
    /\ served = <<>>
    /\ lateDispatch = FALSE

ServeUnchanged ==
    UNCHANGED <<diffVars, launchVars, daemonVars, histVars, handlerVars, detectVars,
                concVars, codecVars, allocVars>>

\* serveClient: select { case <-d.ctx.Done(): return d.ctx.Err(); default: }
ServeSelect(c) ==
    /\ servePc[c] = "select"
    /\ servePc' = [servePc EXCEPT ![c] = IF ctxDone THEN "cancelled" ELSE "read"]
    /\ UNCHANGED <<ctxDone, served, lateDispatch>>
    /\ ServeUnchanged

\* serveClient: a frame arrives, client.Transport.Read() returns it and
\* handler.HandleMessage is called with it; the loop starts over
ServeRead(c) ==
    /\ servePc[c] = "read" /\ Len(served) < MaxServed
    /\ served' = Append(served, [client |-> c, afterCancel |-> ctxDone])
    /\ lateDispatch' = (lateDispatch \/ ctxDone)
    /\ servePc' = [servePc EXCEPT ![c] = "select"]
    /\ UNCHANGED ctxDone
    /\ ServeUnchanged

\* serveClient: client.Transport.Read() returns an error (the peer closed)
ServeReadError(c) ==
    /\ servePc[c] = "read"
    /\ servePc' = [servePc EXCEPT ![c] = "failed"]
    /\ UNCHANGED <<ctxDone, served, lateDispatch>>
    /\ ServeUnchanged

\* Daemon.Shutdown, or the signal goroutine of Daemon.Run: d.cancel()
Shutdown ==
    /\ ~ctxDone
    /\ ctxDone' = TRUE
    /\ UNCHANGED <<servePc, served, lateDispatch>>
    /\ ServeUnchanged

NextServe ==
    \/ \E c \in HClientIDs : ServeSelect(c)
    \/ \E c \in HClientIDs : ServeRead(c)
    \/ \E c \in HClientIDs : ServeReadError(c)
    \/ Shutdown

InitSpecServe ==
    InitServe /\ DiffIdle /\ LaunchIdle /\ DaemonIdle /\ HandlerIdle /\ DetectIdle
    /\ ConcIdle /\ CodecIdle /\ AllocIdle
SpecServe == InitSpecServe /\ [][NextServe]_vars

----------------------------------------------------------------------------
(* SpecAlloc: the allocation of request ids by concurrently running         *)
(* connection handlers, one step per statement.  The goroutines of          *)
(* cmd/neocrush allocate in didChangeToApplyEdit under d.mu: allocMu is the *)
(* goroutine holding d.mu (0 if none), allocPc[c] the position of goroutine *)
(* c, allocLocal[c] its local variable requestID.  The goroutines of the    *)
(* Handler allocate with h.requestID.Add(1).  allocated lists the ids in    *)
(* the order in which they were obtained, with the allocator and goroutine. *)
MaxAlloc == 3

InitAlloc ==
    /\ allocMu = 0
    /\ allocPc = [c \in 1..MaxConns |-> "idle"]
    /\ allocLocal = [c \in 1..MaxConns |-> 0]
    /\ allocated = <<>>

AllocUnchanged ==
    UNCHANGED <<listenerOpen, daemonPc, pc, clientName, clients, documentState, neovimOpenDocs,
                consumed, written, cursorVars, histVars, diffVars, launchVars, detectVars,
                hClients, hDocuments, hCursors, focusedURI, hWritten,
                concVars, codecVars, serveVars>>

\* a mutex that excludes nobody
MutexFree_always(holder) == TRUE
\* sync.Mutex: Lock returns when no goroutine holds the mutex
MutexFree(holder) == holder = 0

\* didChangeToApplyEdit: d.mu.Lock()
AllocLock(c) ==
    /\ allocPc[c] = "idle" /\ MutexFree(allocMu) /\ requestID < MaxAlloc
    /\ allocMu' = c
    /\ allocPc' = [allocPc EXCEPT ![c] = "locked"]
    /\ UNCHANGED <<requestID, pendingRequests, hRequestID, allocLocal, allocated>>
    /\ AllocUnchanged

\* d.requestID++
AllocIncrement(c) ==
    /\ allocPc[c] = "locked"
    /\ requestID' = requestID + 1
    /\ allocPc' = [allocPc EXCEPT ![c] = "incremented"]
    /\ UNCHANGED <<pendingRequests, hRequestID, allocMu, allocLocal, allocated>>
    /\ AllocUnchanged

\* requestID := d.requestID; d.pendingRequests[requestID] = true
AllocRead(c) ==
    /\ allocPc[c] = "incremented"
    /\ allocLocal' = [allocLocal EXCEPT ![c] = requestID]
    /\ pendingRequests' = pendingRequests \cup {requestID}
    /\ allocated' = Append(allocated, [by |-> "daemon", thread |-> c, id |-> requestID])
    /\ allocPc' = [allocPc EXCEPT ![c] = "read"]
    /\ UNCHANGED <<requestID, hRequestID, allocMu>>
    /\ AllocUnchanged

\* d.mu.Unlock(); the request with id requestID is built and written
AllocUnlock(c) ==
    /\ allocPc[c] = "read"
    /\ allocMu' = IF allocMu = c THEN 0 ELSE allocMu
    /\ allocPc' = [allocPc EXCEPT ![c] = "idle"]
    /\ UNCHANGED <<requestID, pendingRequests, hRequestID, allocLocal, allocated>>
    /\ AllocUnchanged

\* sendApplyEdit, sendShowDocument: id := int(h.requestID.Add(1))
HandlerAlloc(c) ==
    /\ hRequestID < MaxHRequests
    /\ hRequestID' = NextRequestID(hRequestID)
    /\ allocated' = Append(allocated, [by |-> "handler", thread |-> c, id |-> hRequestID'])
    /\ UNCHANGED <<requestID, pendingRequests, allocMu, allocPc, allocLocal>>
    /\ AllocUnchanged

NextAlloc ==
    \/ \E c \in 1..MaxConns : AllocLock(c)
    \/ \E c \in 1..MaxConns : AllocIncrement(c)
    \/ \E c \in 1..MaxConns : AllocRead(c)
    \/ \E c \in 1..MaxConns : AllocUnlock(c)
    \/ \E c \in 1..MaxConns : HandlerAlloc(c)

InitSpecAlloc ==
    InitAlloc /\ DiffIdle /\ LaunchIdle /\ DaemonIdle /\ HandlerIdle /\ DetectIdle
    /\ ConcIdle /\ CodecIdle /\ ServeIdle
SpecAlloc == InitSpecAlloc /\ [][NextAlloc]_vars

----------------------------------------------------------------------------
(* SpecDetect: runClient peeks at the first byte of standard input to tell  *)
(* the tool protocol (MCP) from framed LSP.  stdin is what the client       *)
(* sends; arrival says whether its first byte is there within the 5 second  *)
(* timeout ("within"), only later or never ("after"), or whether the input  *)
(* ended or failed before any byte ("closed").                              *)
DetectBytes == {"{", "C", "c", " "}
RECURSIVE InputsOfLen(_)
InputsOfLen(n) ==
    IF n = 0 THEN {<<>>}
    ELSE {Append(i, b) : i \in InputsOfLen(n - 1), b \in DetectBytes}
Inputs == UNION {InputsOfLen(n) : n \in 0..MaxInput}

InitDetect ==
    /\ stdin \in Inputs
    /\ arrival \in IF stdin = <<>> THEN {"after", "closed"} ELSE {"within", "after"}
    /\ protocol = ""

\* runClient: isMCP := firstByte[0] == '{'
DetectProtocol_lsp(firstByte) == "LSP"
DetectProtocol(firstByte) == IF firstByte = "{" THEN "MCP" ELSE "LSP"

DetectUnchanged == UNCHANGED <<stdin, arrival, diffVars, launchVars, daemonVars, histVars, handlerVars, moreVars>>

\* case <-done with peekErr == nil
PeekDone ==
    /\ protocol = "" /\ arrival = "within"
    /\ protocol' = DetectProtocol(stdin[1])
    /\ DetectUnchanged

\* case <-done with peekErr != nil: runMCPClient
PeekError ==
    /\ protocol = "" /\ arrival = "closed"
    /\ protocol' = "MCP"
    /\ DetectUnchanged

\* case <-time.After(5 * time.Second): runMCPClient
PeekTimeout ==
    /\ protocol = "" /\ arrival = "after"
    /\ protocol' = "MCP"
    /\ DetectUnchanged

NextDetect == PeekDone \/ PeekError \/ PeekTimeout
InitSpecDetect == InitDetect /\ HandlerIdle /\ DiffIdle /\ LaunchIdle /\ DaemonIdle /\ MoreIdle
SpecDetect == InitSpecDetect /\ [][NextDetect]_vars

----------------------------------------------------------------------------
(* The codec of package rpc over byte sequences.  A byte is a one-element   *)
(* string; the member "method":"m" of a JSON body is the one byte m and     *)
(* every other member is the byte "p".                                      *)
CR == "\r"
LF == "\n"
Separator == <<CR, LF, CR, LF>>
\* "Content-Length: "
HeaderPrefix == <<"C", "o", "n", "t", "e", "n", "t", "-", "L", "e", "n", "g", "t", "h", ":", " ">>
Digits == <<"0", "1", "2", "3", "4", "5", "6", "7", "8", "9">>

\* fmt.Sprintf("%d", n) for n >= 0
RECURSIVE Itoa(_)
Itoa(n) == IF n < 10 THEN <<Digits[n + 1]>> ELSE Append(Itoa(n \div 10), Digits[(n % 10) + 1])

DigitValue(ch) == CHOOSE d \in 0..9 : Digits[d + 1] = ch
IsDigit(ch) == \E d \in 0..9 : Digits[d + 1] = ch
RECURSIVE DigitsValue(_)
DigitsValue(s) ==
    IF s = <<>> THEN 0
    ELSE DigitsValue(SubSeq(s, 1, Len(s) - 1)) * 10 + DigitValue(s[Len(s)])

\* strconv.Atoi: an optional sign and one or more decimal digits
Atoi(s) ==
    LET signed == s # <<>> /\ s[1] \in {"-", "+"}
        ds == IF signed THEN SubSeq(s, 2, Len(s)) ELSE s
    IN IF ds = <<>> \/ \E i \in 1..Len(ds) : ~IsDigit(ds[i])
       THEN [ok |-> FALSE, val |-> 0]
       ELSE [ok |-> TRUE,
             val |-> IF signed /\ s[1] = "-" THEN 0 - DigitsValue(ds) ELSE DigitsValue(ds)]

\* bytes.Cut(data, "\r\n\r\n"): the position of the first separator, 0 if none
CutAt(data) ==
    LET hits == {i \in 1..(Len(data) - 3) : SubSeq(data, i, i + 3) = Separator}
    IN IF hits = {} THEN 0 ELSE CHOOSE i \in hits : \A j \in hits : i <= j

\* json.Marshal of a message with the given method ("" for none) and pad
\* further members
RECURSIVE Pad(_)
Pad(n) == IF n = 0 THEN <<>> ELSE Append(Pad(n - 1), "p")
Marshal(msg) ==
    <<"{">> \o (IF msg.method = "" THEN <<>> ELSE <<msg.method>>) \o Pad(msg.pad) \o <<"}">>

\* json.Unmarshal(content, &baseMessage): the body must be one JSON object
Unmarshal(content) ==
    LET n == Len(content)
        valid == /\ n >= 2 /\ content[1] = "{" /\ content[n] = "}"
                 /\ \A i \in 2..(n - 1) : content[i] \notin {"{", "}", CR, LF}
        ms == {i \in 2..(n - 1) : content[i] # "p"}
    IN IF ~valid THEN [ok |-> FALSE, method |-> ""]
       ELSE [ok |-> TRUE,
             method |-> IF ms = {} THEN ""
                        ELSE content[CHOOSE i \in ms : \A j \in ms : i >= j]]

\* rpc.EncodeMessage
EncodeMessage(msg) ==
    HeaderPrefix \o Itoa(Len(Marshal(msg))) \o Separator \o Marshal(msg)

NoToken == [advance |-> 0, token |-> <<>>, err |-> FALSE, panic |-> FALSE]

\* a splitter that hands over whatever follows the header
SplitTotal_all(data, header, contentLength) == Len(data)
\* totalLength := len(header) + 4 + contentLength
SplitTotal(data, header, contentLength) == Len(header) + 4 + contentLength

\* rpc.Split; panic is the run-time panic of a slice expression out of range
rpcSplit(data) ==
    LET i == CutAt(data)
        header == SubSeq(data, 1, i - 1)
        content == SubSeq(data, i + 4, Len(data))
    IN IF i = 0 THEN NoToken
       ELSE IF Len(header) < Len(HeaderPrefix) THEN [NoToken EXCEPT !.panic = TRUE]
       ELSE LET n == Atoi(SubSeq(header, Len(HeaderPrefix) + 1, Len(header)))
                total == SplitTotal(data, header, n.val)
            IN IF ~n.ok THEN [NoToken EXCEPT !.err = TRUE]
               ELSE IF Len(content) < n.val THEN NoToken
               ELSE IF total < 0 THEN [NoToken EXCEPT !.panic = TRUE]
               ELSE [advance |-> total, token |-> SubSeq(data, 1, total),
                     err |-> FALSE, panic |-> FALSE]

NoMessage == [method |-> "", content |-> <<>>, err |-> TRUE, panic |-> FALSE]

\* rpc.DecodeMessage
DecodeMessage(msg) ==
    LET i == CutAt(msg)
        header == SubSeq(msg, 1, i - 1)
        content == SubSeq(msg, i + 4, Len(msg))
    IN IF i = 0 THEN NoMessage
       ELSE IF Len(header) < Len(HeaderPrefix) THEN [NoMessage EXCEPT !.panic = TRUE]
       ELSE LET n == Atoi(SubSeq(header, Len(HeaderPrefix) + 1, Len(header)))
            IN IF ~n.ok THEN NoMessage
               ELSE IF n.val < 0 \/ n.val > Len(content) THEN [NoMessage EXCEPT !.panic = TRUE]
               ELSE LET body == SubSeq(content, 1, n.val)
                        m == Unmarshal(body)
                    IN IF ~m.ok THEN NoMessage
                       ELSE [method |-> m.method, content |-> body,
                             err |-> FALSE, panic |-> FALSE]

----------------------------------------------------------------------------
(* SpecWire: Spec whose clients also send byte sequences that are not the   *)
(* encoding of a message: headers that are not "Content-Length: N" and      *)
(* bodies that are not JSON.                                                *)
BadStreams ==
    {<<"X">> \o Separator,
     SubSeq(HeaderPrefix, 1, 15) \o Separator,
     SubSeq(HeaderPrefix, 1, 15) \o <<"2">> \o Separator \o <<"{", "}">>,
     HeaderPrefix \o <<"x">> \o Separator,
     HeaderPrefix \o <<"2">> \o Separator \o <<"x", "y">>,
     HeaderPrefix \o <<"2">> \o Separator \o <<"{", "M">>}

\* what handleClient holds after rpc.DecodeMessage failed on msg: no method,
\* no content, and the bytes of msg
Undecoded(msg) == [Msg0 EXCEPT !.raw = msg]

\* handleClient reading data from connection c: scanner.Scan calls rpc.Split.
\* A panic of Split ends the process; an error of Split ends the loop
\* (Disconnect); a token that rpc.DecodeMessage cannot decode goes on through
\* the loop body with method "" (handleInitialize fails on an unidentified
\* connection; otherwise forwardToPeer writes the bytes)
ReadMalformed(c, data) ==
    /\ Alive(c)
    /\ LET sp == rpcSplit(data)
       IN IF sp.panic
          THEN /\ daemonPc' = "crashed"
               /\ listenerOpen' = FALSE
               /\ pc' = [b \in Conns |-> IF pc[b] \in {"open", "cleanup"} THEN "closed" ELSE pc[b]]
               /\ clientName' = [b \in Conns |-> <<>>]
               /\ written' = <<>>
               /\ editorOrder' = <<>>
               /\ editorOpened' = <<>>
               /\ UNCHANGED <<clients, requestID, pendingRequests, documentState, neovimOpenDocs,
                              consumed, cursorVars, diffVars, auxVars, launchVars, histOn,
                              lastAgentChange>>
          ELSE IF sp.err THEN Disconnect(c)
          ELSE /\ sp.advance > 0 /\ DecodeMessage(sp.token).err
               /\ IF clientName[c] = <<>>
                  THEN Identify(c, Undecoded(sp.token))
                  ELSE Forward(c, Undecoded(sp.token), <<>>)

NextWire ==
    \/ Next
    \/ \E c \in Conns, data \in BadStreams : ReadMalformed(c, data)
SpecWire == InitSpec /\ [][NextWire]_vars

----------------------------------------------------------------------------
(* SpecCodec: a writer encodes the messages wireMsgs with EncodeMessage and *)
(* the bytes reach the reader in chunks of any size; the reader is a        *)
(* bufio.Scanner with rpc.Split as split function followed by               *)
(* rpc.DecodeMessage.  wireRest are the bytes not yet delivered, wireBuf    *)
(* the bytes delivered and not yet consumed by the splitter, emitted the    *)
(* decoded tokens.                                                          *)
MaxMsgs == 2
MaxPad == 8
CodecMsgs == {[method |-> m, pad |-> p] : m \in {"", "M", "N"}, p \in {0, MaxPad}}
RECURSIVE MsgSeqsOfLen(_)
MsgSeqsOfLen(n) ==
    IF n = 0 THEN {<<>>} ELSE {Append(s, m) : s \in MsgSeqsOfLen(n - 1), m \in CodecMsgs}
MsgSeqs == UNION {MsgSeqsOfLen(n) : n \in 0..MaxMsgs}

\* the writer's output: the encodings one after the other
RECURSIVE Encoded(_)
Encoded(msgs) ==
    IF msgs = <<>> THEN <<>> ELSE EncodeMessage(Head(msgs)) \o Encoded(Tail(msgs))

InitCodec ==
    /\ wireMsgs \in MsgSeqs
    /\ wireRest = Encoded(wireMsgs)
    /\ wireBuf = <<>>
    /\ emitted = <<>>

CodecUnchanged ==
    UNCHANGED <<diffVars, launchVars, daemonVars, histVars, handlerVars, detectVars,
                concVars, serveVars, allocVars>>

\* a read of the connection returns the next k bytes
Deliver(k) ==
    /\ k \in 1..Len(wireRest)
    /\ wireBuf' = wireBuf \o SubSeq(wireRest, 1, k)
    /\ wireRest' = SubSeq(wireRest, k + 1, Len(wireRest))
    /\ UNCHANGED <<wireMsgs, emitted>>
    /\ CodecUnchanged

\* scanner.Scan: rpc.Split on the buffered bytes returns a token, which is
\* decoded, or fails; with no token the scanner waits for more bytes
ScanToken ==
    LET sp == rpcSplit(wireBuf)
        m == DecodeMessage(sp.token)
    IN /\ sp.advance > 0 \/ sp.err \/ sp.panic
       /\ IF sp.err \/ sp.panic
          THEN /\ wireBuf' = <<>>
               /\ emitted' = Append(emitted, [method |-> "", content |-> <<>>, err |-> TRUE])
          ELSE /\ wireBuf' = SubSeq(wireBuf, sp.advance + 1, Len(wireBuf))
               /\ emitted' = Append(emitted, [method |-> m.method, content |-> m.content,
                                               err |-> m.err \/ m.panic])
       /\ UNCHANGED <<wireMsgs, wireRest>>
       /\ CodecUnchanged

NextCodec ==
    \/ \E k \in 1..Len(wireRest) : Deliver(k)
    \/ ScanToken

InitSpecCodec ==
    InitCodec /\ DiffIdle /\ LaunchIdle /\ DaemonIdle /\ HandlerIdle /\ DetectIdle
    /\ ConcIdle /\ ServeIdle /\ AllocIdle
SpecCodec == InitSpecCodec /\ [][NextCodec]_vars

----------------------------------------------------------------------------
(* C2: for every baseline and target, computeLineEdits returns no edit when *)
(* they are equal and otherwise exactly one edit whose application to the   *)
(* baseline yields the target.                                              *)
C2_DiffRoundTrip ==
    diffPc = "real" =>
        IF oldText = newText THEN diffEdits = <<>>
        ELSE Len(diffEdits) = 1 /\ ApplyEdit(oldText, diffEdits[1]) = newText

(* C9: when a no-op edit is emitted, applying it to the new text leaves the *)
(* new text unchanged.                                                      *)
C9_NoOpLeavesNewText ==
    diffPc = "noop" =>
        \A i \in 1..Len(noopEdits) : ApplyEdit(newText, noopEdits[i]) = newText

(* C5: every client whose connectToDaemon succeeded is connected to the     *)
(* same daemon, and no client polls for a socket that the daemon it         *)
(* launched never creates.                                                  *)
C5_SingleDaemon ==
    /\ \A p, q \in Clients :
         (cliPc[p] = "connected" /\ cliPc[q] = "connected") => cliConn[p] = cliConn[q]
    /\ \A p \in Clients :
         cliPc[p] = "poll" => dmnPc[cliSess[p][1]] # "fatal"

----------------------------------------------------------------------------
\* a frame the daemon relays as a response: no method, no result of its own
IsResponseFrame(m) == m.method = "" /\ m.result = ""

(* C1: when the only initialized editor has sent textDocument/didOpen for a *)
(* URI with text T0 and the agent then sends textDocument/didChange for it  *)
(* with text T1 # T0, exactly one workspace/applyEdit is written to the     *)
(* editor and its edits are the line diff of T0 and T1; for                 *)
(* "hello\nworld\n" and "hello\nWORLD\n" the single edit is (1,0)-(2,0)     *)
(* with replacement "WORLD\n".                                              *)
C1_EditorAgentRoundTrip ==
    [][\A c \in Conns, f \in DidChangeFrames, disk \in DiskReads :
        (/\ Forward(c, f, disk)
         /\ clientName[c] = sCrush /\ Len(f.changes) > 0
         /\ Len(editorOrder) = 1
         /\ sNeovim \in DOMAIN clients /\ clients[sNeovim] = editorOrder[1]
         /\ f.uri \in DOMAIN editorOpened /\ editorOpened[f.uri] # f.changes[1])
        => LET T0 == editorOpened[f.uri]
               T1 == f.changes[1]
           IN /\ written' = <<Write(c, f, editorOrder[1],
                    ApplyEditRequest(requestID + 1, f.uri, computeLineEdits(T0, T1)))>>
              /\ (T0 = Hello0 /\ T1 = Hello1)
                     => written'[1].msg.edits = <<MkEdit(1, 2, <<"WORLD", NL>>)>>]_vars

(* C3: every allocated request id is pending until an editor response with  *)
(* that id is read; that response is consumed without anything being        *)
(* written and removes the id; ids enter pendingRequests only when they are *)
(* allocated, so each id is consumed exactly once; an editor response       *)
(* written to the agent never carries a pending id.                         *)
C3_ConsumedOnce ==
    /\ [](/\ pendingRequests \subseteq 1..requestID
          /\ \A id \in 1..MaxRequests :
               consumed[id] = IF id \in 1..requestID /\ id \notin pendingRequests
                              THEN 1 ELSE 0)
    /\ [][/\ (pendingRequests' # pendingRequests \/ requestID' # requestID) =>
               \/ /\ requestID' = requestID + 1
                  /\ pendingRequests' = pendingRequests \cup {requestID'}
                  /\ Len(written') = 1
                  /\ written'[1].msg.method = "workspace/applyEdit"
                  /\ written'[1].msg.id = requestID'
               \/ /\ requestID' = requestID
                  /\ written' = <<>>
                  /\ \E id \in pendingRequests :
                       /\ pendingRequests' = pendingRequests \ {id}
                       /\ consumed'[id] = consumed[id] + 1
          /\ \A i \in 1..Len(written') :
               (/\ sCrush \in DOMAIN clients /\ written'[i].to = clients[sCrush]
                /\ IsResponseFrame(written'[i].msg))
               => written'[i].msg.id \notin pendingRequests]_vars

\* id 1 has been consumed and a later editor response with id 1 went to the agent
C3_Witness ==
    /\ requestID >= 1 /\ consumed[1] = 1 /\ 1 \notin pendingRequests
    /\ \E i \in 1..Len(written) :
         /\ clientName[written[i].from] = sNeovim
         /\ written[i].msg = [Msg0 EXCEPT !.id = 1]

\* a write of the default path: neither a reply of the daemon nor a tool query
IsRouted(w) == w.msg.result = "" /\ ~IsToolMethod(w.msg.method)

(* C4: on the default path a frame from the editor is written unchanged to  *)
(* the agent's connection and nowhere else, a frame from the agent is       *)
(* written only to the editor's connection (unchanged, or a didChange       *)
(* turned into a workspace/applyEdit), a frame from any other role is       *)
(* written nowhere, and nothing is written back to the sending connection.  *)
C4_RoleRouting ==
    \A i \in 1..Len(written) :
        LET w == written[i]
            role == clientName[w.from]
        IN IsRouted(w) =>
             /\ Len(written) = 1
             /\ w.to # w.from
             /\ pc[w.to] = "open"
             /\ role \in {sNeovim, sCrush}
             /\ role = sNeovim =>
                  /\ clientName[w.to] = sCrush
                  /\ sCrush \in DOMAIN clients /\ clients[sCrush] = w.to
                  /\ w.msg = w.frame
             /\ role = sCrush =>
                  /\ clientName[w.to] = sNeovim
                  /\ sNeovim \in DOMAIN clients /\ clients[sNeovim] = w.to
                  /\ IF w.frame.method = "textDocument/didChange"
                     THEN w.msg.method = "workspace/applyEdit" /\ w.msg.uri = w.frame.uri
                     ELSE w.msg = w.frame

\* an editor's didOpen has just been written to the agent's connection
C4_Witness ==
    \E i \in 1..Len(written) :
        /\ written[i].msg \in DidOpenFrames
        /\ clientName[written[i].from] = sNeovim
        /\ clientName[written[i].to] = sCrush

(* C6 as stated: when an identified client's connection ends it is removed  *)
(* from the client table, and whenever that leaves the table empty the      *)
(* listener is closed and the daemon exits.                                 *)
C6_EmptyTableShutsDown ==
    /\ [][\A c \in Conns :
            (Disconnect(c) /\ clientName[c] # <<>>)
            => \A k \in DOMAIN clients' : clients'[k] # c]_vars
    /\ ((\E c \in Conns : pc[c] = "cleanup") /\ DOMAIN clients = {})
           ~> (~listenerOpen /\ daemonPc = "exited")

(* C6, amended: when an identified client's connection ends, no entry of    *)
(* the client table refers to it any more; when that leaves the table empty *)
(* the listener is closed unless a client registers before the departing    *)
(* handler reads the table's size; and once the listener is closed the      *)
(* accept loop ends and the daemon exits.                                   *)
C6_LastClientShutsDown ==
    /\ [][\A c \in Conns :
            (Disconnect(c) /\ clientName[c] # <<>>)
            => /\ clientName[c] \notin DOMAIN clients'
               /\ \A k \in DOMAIN clients' : clients'[k] # c]_vars
    /\ ((\E c \in Conns : pc[c] = "cleanup") /\ DOMAIN clients = {})
           ~> (~listenerOpen \/ DOMAIN clients # {})
    /\ (~listenerOpen) ~> (daemonPc = "exited")

\* the last client has left and the daemon has exited
C6_Witness ==
    /\ daemonPc = "exited" /\ DOMAIN clients = {}
    /\ \E c \in Conns : pc[c] = "closed"

(* C7: the listener is closed only in a step after which no identified      *)
(* client's connection is open.                                             *)
C7_ClosedOnlyWhenAllGone ==
    [][(listenerOpen /\ ~listenerOpen')
       => \A c \in Conns : ~(pc'[c] = "open" /\ clientName'[c] # <<>>)]_vars

(* C8: whenever some connection that initialized as the editor is open, the *)
(* editor entry of the client table is the most recently initialized one.   *)
C8_MostRecentEditorWins ==
    (daemonPc = "accepting" /\ editorOrder # <<>>)
    => /\ sNeovim \in DOMAIN clients
       /\ clients[sNeovim] = editorOrder[Len(editorOrder)]

(* C10: when the agent's textDocument/didChange carries the same text as    *)
(* its previous one for the same URI, no workspace/applyEdit is written and *)
(* pendingRequests does not change.                                         *)
C10_SecondChangeSilent ==
    [][\A c \in Conns, f \in DidChangeFrames, disk \in DiskReads :
        (/\ Forward(c, f, disk)
         /\ clientName[c] = sCrush /\ Len(f.changes) > 0
         /\ f.uri \in DOMAIN lastAgentChange /\ lastAgentChange[f.uri] = f.changes[1])
        => /\ \A i \in 1..Len(written') : written'[i].msg.method # "workspace/applyEdit"
           /\ pendingRequests' = pendingRequests]_vars

(* C11: when the agent's textDocument/didChange is for a URI without cached *)
(* content and the read of the file fails, nothing is written to the editor *)
(* and no request id is allocated or marked pending.                        *)
C11_NoBaselineNoEdit ==
    [][\A c \in Conns, f \in DidChangeFrames :
        (/\ Forward(c, f, <<>>)
         /\ clientName[c] = sCrush /\ Len(f.changes) > 0
         /\ f.uri \notin DOMAIN documentState)
        => /\ written' = <<>>
           /\ requestID' = requestID
           /\ pendingRequests' = pendingRequests]_vars

(* C12: every initialize request of a connection that is not a tool client  *)
(* is answered by exactly one response synthesized by the daemon on that    *)
(* connection, and the initialize frame is written to no connection.        *)
C12_InitializeAnsweredLocally ==
    [][\A c \in Conns, f \in InitializeFrames :
        (clientName[c] # sMcp /\ (Identify(c, f) \/ Forward(c, f, <<>>)))
        => written' = <<Write(c, f, c, InitializeResponse(f))>>]_vars

(* C13: a textDocument/didOpen or textDocument/didClose from the agent is   *)
(* written nowhere; any other frame of the agent on the default path,       *)
(* except textDocument/didChange, is written unchanged to an editor         *)
(* connection whenever an initialized editor connection is open.            *)
C13_AgentPassThrough ==
    [][\A c \in Conns, f \in Frames \ (ToolFrames \cup InitializedFrames \cup DidChangeFrames) :
        (Forward(c, f, <<>>) /\ clientName[c] = sCrush)
        => IF f.method \in {"textDocument/didOpen", "textDocument/didClose"}
           THEN written' = <<>>
           ELSE editorOrder # <<>>
                => /\ Len(written') = 1
                   /\ written'[1].msg = f
                   /\ \E i \in 1..Len(editorOrder) : written'[1].to = editorOrder[i]]_vars


(* C14: a tool query on a connection without a role registers it as "mcp"; *)
(* every crush/getEditorContext is answered by exactly one response with   *)
(* its id, written to the connection that sent it; and no tool-query frame *)
(* is written to the agent's connection.                                   *)
C14_ToolQueryAnswered ==
    [][\A c \in Conns, f \in ToolFrames :
        ToolQuery(c, f)
        => /\ clientName[c] = <<>>
              => /\ clientName'[c] = sMcp
                 /\ sMcp \in DOMAIN clients' /\ clients'[sMcp] = c
           /\ f.method = "crush/getEditorContext"
              => /\ Len(written') = 1
                 /\ written'[1].to = c
                 /\ written'[1].msg.method = "" /\ written'[1].msg.id = f.id
           /\ \A i \in 1..Len(written') :
                 IsToolMethod(written'[i].msg.method)
                 => ~(sCrush \in DOMAIN clients /\ written'[i].to = clients[sCrush])]_vars


\* the last step answered a crush/getEditorContext
HasContextResponse == Len(written) = 1 /\ written[1].msg.context # <<>>
ContextWritten == written[1].msg.context[1]

\* lines of a text counted on the text itself: line j (from 0) starts after
\* the j-th "\n" and ends before the next one
NumLines(doc) == Cardinality({p \in 1..Len(doc) : doc[p] = NL}) + 1
NLPos(doc, k) ==
    CHOOSE p \in 1..Len(doc) : doc[p] = NL /\ Cardinality({q \in 1..p : doc[q] = NL}) = k
LineStart(doc, j) == IF j = 0 THEN 1 ELSE NLPos(doc, j) + 1
LineEnd(doc, j) == IF j = NumLines(doc) - 1 THEN Len(doc) ELSE NLPos(doc, j + 1) - 1
\* lines a..b of doc joined by "\n" (nothing when a > b)
LinesJoined(doc, a, b) ==
    IF a > b THEN <<>> ELSE SubSeq(doc, LineStart(doc, a), LineEnd(doc, b))

\* the cursor is on a line of a cached document
CursorInDocument ==
    /\ cursorURI \in DOMAIN documentState
    /\ 0 <= cursorLine /\ cursorLine < NumLines(documentState[cursorURI])

ContextWindowAsRuled ==
    (HasContextResponse /\ CursorInDocument)
    => LET doc == documentState[cursorURI]
           L == cursorLine
           n == NumLines(doc)
       IN /\ ContextWritten.total_lines = n
          /\ ContextWritten.context_before = LinesJoined(doc, Max(L - 5, 0), L - 1)
          /\ ContextWritten.context_line = LinesJoined(doc, L, L)
          /\ ContextWritten.context_after = LinesJoined(doc, L + 1, Min(L + 5, n - 1))

ExampleDoc == <<"L0", NL, "L1", NL, "L2", NL, "L3", NL, "L4", NL, "L5", NL, "L6", NL>>
ExampleAnswered ==
    /\ HasContextResponse
    /\ cursorURI \in DOMAIN documentState /\ documentState[cursorURI] = ExampleDoc
    /\ cursorLine = 3

(* C15 as stated: the context window rule, and for "L0\nL1\nL2\nL3\nL4\nL5\nL6\n" *)
(* with cursor line 3 the response has context_before "L0\nL1\nL2",        *)
(* context_line "L3", context_after "L4\nL5\nL6" and total_lines 8.         *)
C15_ExampleAsStated ==
    /\ ContextWindowAsRuled
    /\ ExampleAnswered
       => /\ ContextWritten.context_before = <<"L0", NL, "L1", NL, "L2">>
          /\ ContextWritten.context_line = <<"L3">>
          /\ ContextWritten.context_after = <<"L4", NL, "L5", NL, "L6">>
          /\ ContextWritten.total_lines = 8

(* C15: for a cached document and a cursor line L inside it, the response   *)
(* to crush/getEditorContext has context_before = the up to 5 lines before  *)
(* L joined by "\n", context_line = line L, context_after = the up to 5     *)
(* lines after L joined by "\n", total_lines = the number of "\n"-separated *)
(* lines; for "L0\nL1\nL2\nL3\nL4\nL5\nL6\n" with cursor line 3 these are   *)
(* "L0\nL1\nL2", "L3", "L4\nL5\nL6\n" (the empty eighth line is the fourth  *)
(* line after L3) and 8.                                                    *)
C15_ContextWindow ==
    /\ ContextWindowAsRuled
    /\ ExampleAnswered
       => /\ ContextWritten.context_before = <<"L0", NL, "L1", NL, "L2">>
          /\ ContextWritten.context_line = <<"L3">>
          /\ ContextWritten.context_after = <<"L4", NL, "L5", NL, "L6", NL>>
          /\ ContextWritten.total_lines = 8

C15_Witness == ExampleAnswered


(* C16: crush/cursorMoved stores the position as it arrives, and every      *)
(* crush/getEditorContext is answered whatever the stored position: with an *)
(* empty context_line when the cursor line is negative or beyond the cached *)
(* document's last line, and with total_lines 0 and empty context_before,   *)
(* context_line and context_after when the cursor's document is not cached. *)
C16_AnyCursorAnswered ==
    [][/\ \A c \in Conns, f \in CursorFrames :
             CursorMoved(c, f)
             => cursorURI' = f.uri /\ cursorLine' = f.line /\ cursorColumn' = f.column
       /\ \A c \in Conns, f \in ToolFrames :
             (ToolQuery(c, f) /\ f.method = "crush/getEditorContext")
             => /\ Len(written') = 1 /\ written'[1].to = c /\ written'[1].msg.context # <<>>
                /\ LET r == written'[1].msg.context[1]
                   IN IF cursorURI \in DOMAIN documentState
                      THEN (cursorLine < 0 \/ cursorLine >= NumLines(documentState[cursorURI]))
                           => r.context_line = <<>>
                      ELSE /\ r.total_lines = 0
                           /\ r.context_before = <<>>
                           /\ r.context_line = <<>>
                           /\ r.context_after = <<>>]_vars


ShowLocationsFrames == {f \in ToolFrames : f.method = "crush/showLocations"}

(* C17: a crush/showLocations from a tool client is written unchanged to    *)
(* the connection registered as the editor, and to no other, when there is  *)
(* one; otherwise nothing is written; the tool client's connection stays    *)
(* open and nothing is written to it.                                       *)
C17_ShowLocationsToEditor ==
    [][\A c \in Conns, f \in ShowLocationsFrames :
        (ToolQuery(c, f) /\ clientName'[c] = sMcp)
        => /\ IF sNeovim \in DOMAIN clients
              THEN written' = <<Write(c, f, clients[sNeovim], f)>>
              ELSE written' = <<>>
           /\ \A i \in 1..Len(written') : written'[i].to # c
           /\ pc'[c] = "open"]_vars

C17_Witness ==
    /\ Len(written) = 1
    /\ written[1].frame.method = "crush/showLocations"
    /\ clientName[written[1].from] = sMcp
    /\ sNeovim \in DOMAIN clients /\ written[1].to = clients[sNeovim]
    /\ written[1].msg = written[1].frame


\* the role the claim gives to a clientInfo.name
RoleAsClaimed(name) ==
    IF Contains(ToLower(name), sVim) THEN sNeovim
    ELSE IF Contains(ToLower(name), sCrush) THEN sCrush
    ELSE name

(* C18: the role a connection gets from its first frame: for an initialize  *)
(* request, the editor role when clientInfo.name contains "vim" in any      *)
(* case, otherwise the agent role when it contains "crush" in any case,     *)
(* otherwise the name itself (no role for the empty name); for any other    *)
(* first frame, no role.                                                    *)
C18_RoleFromName ==
    [][\A c \in Conns, f \in IdentifyFrames :
        Identify(c, f)
        => clientName'[c] = IF f.method = "initialize" THEN RoleAsClaimed(f.name) ELSE <<>>]_vars


(* C19: a load with the socket check, on a workspace whose metadata file    *)
(* exists while the socket path it records does not, returns an error,      *)
(* deletes the metadata file and leaves every manager's in-memory table as  *)
(* it was.                                                                  *)
C19_StaleLoad ==
    [][\A m \in Managers :
        (/\ loadSessionFromWorkspace(m, TRUE)
         /\ metaFile # <<>> /\ metaFile[1].socket_path \notin sockFiles)
        => /\ sessResult'.err /\ sessResult'.session = <<>>
           /\ metaFile' = <<>>
           /\ sessions' = sessions]_vars

\* a stale load has just failed in a manager that holds no session while
\* another manager still holds the session it created
C19_Witness ==
    /\ sessResult # <<>> /\ sessResult.err
    /\ metaFile = <<>> /\ nextSessID > 1
    /\ \E m \in Managers : sessions[m] = <<>>
    /\ \E m \in Managers : DOMAIN sessions[m] = {1}
    /\ sockFiles = {}

(* C20: a create returns a session and records it in the metadata file;     *)
(* while the file records a session, a load without the socket check by any *)
(* manager returns that session's id and socket path, whether the socket    *)
(* exists or not, and leaves the file as it is; and a load with the socket  *)
(* check returns the same id and socket path whenever the socket exists.    *)
C20_CreateLoadRoundTrip ==
    [][/\ \A m \in Managers :
             MgrCreateSession(m)
             => /\ ~sessResult'.err
                /\ sessResult'.session[1].ID = nextSessID
                /\ metaFile' # <<>>
                /\ metaFile'[1].id = sessResult'.session[1].ID
                /\ metaFile'[1].socket_path = sessResult'.session[1].SocketPath
       /\ \A m \in Managers, checkSocket \in BOOLEAN :
             (/\ loadSessionFromWorkspace(m, checkSocket)
              /\ metaFile # <<>>
              /\ checkSocket => metaFile[1].socket_path \in sockFiles)
             => /\ ~sessResult'.err
                /\ sessResult'.session[1].ID = metaFile[1].id
                /\ sessResult'.session[1].SocketPath = metaFile[1].socket_path
                /\ metaFile' = metaFile]_vars

\* a manager that did not create session 1 has just loaded it while its
\* socket does not exist
C20_Witness ==
    /\ sessResult # <<>> /\ ~sessResult.err /\ sessResult.session # <<>>
    /\ sessResult.session[1] = NewSession(1)
    /\ metaFile # <<>> /\ metaFile[1].id = 1
    /\ sockFiles = {}
    /\ \A m \in Managers : 1 \in DOMAIN sessions[m]


(* C21: RemoveSession of an id the manager holds removes the session's      *)
(* socket file and the workspace metadata file and drops the id from that   *)
(* manager's table (a lookup of the id fails afterwards); RemoveSession of  *)
(* an id the manager does not hold returns success and changes neither the  *)
(* files nor any table.                                                     *)
C21_RemoveSession ==
    [][\A m \in Managers, id \in 1..MaxSessions :
        RemoveSession(m, id)
        => /\ ~sessResult'.err
           /\ IF id \in DOMAIN sessions[m]
              THEN /\ sessions[m][id].SocketPath \notin sockFiles'
                   /\ metaFile' = <<>>
                   /\ id \notin DOMAIN sessions'[m]
                   /\ \A x \in DOMAIN sessions[m] \ {id} :
                         x \in DOMAIN sessions'[m] /\ sessions'[m][x] = sessions[m][x]
                   /\ \A k \in Managers \ {m} : sessions'[k] = sessions[k]
              ELSE /\ sockFiles' = sockFiles
                   /\ metaFile' = metaFile
                   /\ sessions' = sessions]_vars

\* the manager that created session 1 has removed it while its socket and
\* its metadata file existed
C21_Witness ==
    /\ sessResult # <<>> /\ ~sessResult.err /\ sessResult.session = <<>>
    /\ nextSessID = 2
    /\ \A m \in Managers : sessions[m] = <<>>
    /\ metaFile = <<>> /\ sockFiles = {}


\* the session file records a session whose socket exists
LoadableSession ==
    /\ metaFile # <<>> /\ IsParseable(metaFile[1])
    /\ metaFile[1].socket_path \in sockFiles

C23_FatalBeforeSocket ==
    [][/\ \A i \in DOMAIN dmnPc :
             (/\ DaemonCheckSession(i)
              /\ (EnvID(i) = <<>> \/ metaFile = <<>> \/ metaFile # EnvID(i)))
             => dmnPc'[i] = "fatal" /\ sockFiles' = sockFiles
       /\ \A i \in DOMAIN dmnPc : dmnPc[i] = "fatal" => dmnPc'[i] = "fatal"
       /\ sockFiles' # sockFiles
          => \E i \in DOMAIN dmnPc : dmnPc[i] = "checked" /\ dmnPc'[i] = "listening"]_vars

\* the process without CRUSH_SESSION_ID and a process whose id differs from
\* the recorded one have both ended fatally, and no socket was touched
C23_Witness ==
    /\ -1 \in DOMAIN dmnPc /\ dmnPc[-1] = "fatal"
    /\ dmnPc[1] = "fatal" /\ metaFile = <<2>>
    /\ sockFiles = {}


\* C24: once a daemon process has shut down in an orderly way (its last client
\* left and run() returned, or a termination or interrupt signal arrived),
\* neither its socket file nor the workspace session file recording its
\* session is on disk.
C24_NoFilesAfterShutdown ==
    \A i \in DOMAIN dmnPc :
        dmnPc[i] \in {"exited", "signalled"}
            => (i \notin sockFiles /\ metaFile # <<i>>)


BroadcastMethods == {"crush/documentChanged", "crush/cursorMoved", "crush/focusChanged"}

\* C25: no broadcast notification (crush/documentChanged, crush/cursorMoved,
\* crush/focusChanged) is written to the client whose frame caused it,
\* whatever that client has subscribed to.
C25_NoEchoToSender ==
    \A w \in hWritten : w.method \in BroadcastMethods => w.to # w.from

\* C26: after a textDocument/didOpen or textDocument/didChange for a URI is
\* handled, the stored content of the URI is the text of the last change
\* handled for it and the stored version is the version of that notification,
\* for any client and any number of contentChanges.
C26_LastNotificationStored ==
    [][/\ \A c \in HClientIDs, uri \in HURIs, text \in HTexts, version \in HVersions :
              handleDidOpen(c, uri, text, version)
                  => /\ uri \in DOMAIN hDocuments'
                     /\ hDocuments'[uri] = [Content |-> text, Version |-> version]
       /\ \A c \in HClientIDs, uri \in HURIs, changes \in ContentChanges, version \in HVersions :
              (handleDidChange(c, uri, changes, version)
               /\ (changes # <<>> \/ uri \in DOMAIN hDocuments))
                  => /\ uri \in DOMAIN hDocuments'
                     /\ hDocuments'[uri] =
                            [Content |-> IF changes = <<>> THEN hDocuments[uri].Content
                                         ELSE changes[Len(changes)],
                             Version |-> version]]_vars

\* C27: when the editor sends hover, completion, definition, references,
\* documentHighlight, codeAction or signatureHelp for a URI at a position, its
\* cursor afterwards is that URI and position, tagged with the method.
C27_CursorFromRequest ==
    [][\A method \in PositionMethods, uri \in HURIs, position \in HPositions :
           HandlePosition(ClientTypeNeovim, method, uri, position)
               => /\ ClientTypeNeovim \in DOMAIN hCursors'
                  /\ hCursors'[ClientTypeNeovim] =
                         [URI |-> uri, Line |-> position[1], Character |-> position[2],
                          Source |-> method]]_vars


\* C28: protocol detection depends on the first byte of the client's input
\* only: a first byte "{" arriving in time selects the tool protocol (MCP), a
\* first byte "C" selects framed LSP, and when no byte has arrived within the
\* 5 second timeout the tool protocol is selected.
C28_ProtocolDetection ==
    protocol # "" =>
        /\ (arrival = "within" /\ stdin[1] = "{") => protocol = "MCP"
        /\ (arrival = "within" /\ stdin[1] = "C") => protocol = "LSP"
        /\ arrival = "after" => protocol = "MCP"

C28_Witness ==
    /\ protocol = "LSP" /\ arrival = "within"
    /\ Len(stdin) > 1 /\ stdin[1] = "C" /\ stdin[2] = "{"


\* C29: after the daemon handles an agent textDocument/didChange for a URI
\* with text T, the cached content of the URI is T, whether or not an editor
\* is connected; and after it handles an editor textDocument/didOpen for a
\* URI with text T, the cached content of the URI is T.
C29_CachedWhateverForwarded ==
    [][\A c \in Conns, f \in DidChangeFrames \cup DidOpenFrames, disk \in DiskReads :
        Forward(c, f, disk)
        => /\ (clientName[c] = sCrush /\ f.method = "textDocument/didChange"
               /\ Len(f.changes) > 0)
                  => (f.uri \in DOMAIN documentState' /\ documentState'[f.uri] = f.changes[1])
           /\ (clientName[c] = sNeovim /\ f.method = "textDocument/didOpen")
                  => (f.uri \in DOMAIN documentState' /\ documentState'[f.uri] = f.text)]_vars


\* C30: when the agent's request has just been written to the editor and the
\* editor's next frame is the response that answers it, the response is
\* written unchanged to the agent, whatever id the agent chose and whatever
\* workspace/applyEdit requests of the daemon are pending.
C30_AgentAnswerForwarded ==
    [][\A c \in Conns, f \in AnswerFrames :
        (/\ ConsumeResponse(c, f) \/ Forward(c, f, <<>>)
         /\ clientName[c] = sNeovim
         /\ f.result = "workspace/symbol"
         /\ \E i \in 1..Len(written) :
                /\ written[i].to = c
                /\ clientName[written[i].from] = sCrush
                /\ written[i].msg \in RequestFrames
                /\ written[i].msg.id = f.id)
        => /\ sCrush \in DOMAIN clients
           /\ written' = <<Write(c, f, clients[sCrush], f)>>]_vars


\* C31: when a client sends a frame that is malformed or whose body cannot be
\* decoded, nothing is written to any other connection and the connection the
\* frame arrived on is closed.
C31_MalformedDroppedAndClosed ==
    [][\A c \in Conns, data \in BadStreams :
        ReadMalformed(c, data)
        => /\ \A i \in 1..Len(written') : written'[i].to = c
           /\ pc'[c] # "open"]_vars

\* C32: no byte sequence of a client (a header that is not "Content-Length: N"
\* or a body that cannot be decoded) ends the daemon process or closes
\* another connection.
C32_MalformedNeverFatal ==
    [][\A c \in Conns, data \in BadStreams :
        ReadMalformed(c, data)
        => /\ daemonPc' = daemonPc
           /\ \A o \in Conns \ {c} : pc'[o] = pc[o]]_vars


\* C33: while a broadcast has a write to make to a subscribed client whose
\* transport does not accept it, no goroutine holds the lock of the client
\* table, so clients can still be registered and unregistered.
C33_NoWriteUnderLock ==
    \A c \in DOMAIN thrPc :
        (/\ thrPc[c] = "writing"
         /\ \E to \in thrTodo[c] : to \in stalled /\ hClients[to].DocumentChanges)
        => hMuReaders = {}

\* C34: when no textDocument/didChange is being handled, the content of the
\* last crush/documentChanged notification a subscriber received for a URI is
\* the content stored for that URI.
C34_LastNotificationIsStored ==
    (\A c \in DOMAIN thrPc : thrPc[c] = "idle")
    => \A to \in DOMAIN hClients, u \in HURIs :
           (hClients[to].DocumentChanges /\ bcLast[to][u] # "")
           => (u \in DOMAIN hDocuments /\ bcLast[to][u] = hDocuments[u].Content)


\* C35: neovimOpenDocs holds only URIs opened by the editor connection
\* that is connected now: when no open connection is identified as the
\* editor, it is empty.
C35_OpenDocsOfConnectedEditor ==
    (\A c \in Conns : ~(Alive(c) /\ clientName[c] = sNeovim)) => neovimOpenDocs = {}


\* C36: RemoveSession(id) leaves the workspace session file alone when the
\* file records another session: after sessions A and B were created for
\* the workspace, removing A leaves the file recording B.
C36_RemoveKeepsOtherSession ==
    [][\A m \in Managers, id \in 1..MaxSessions :
          (/\ RemoveSession(m, id)
           /\ id \in DOMAIN sessions[m]
           /\ metaFile # <<>> /\ IsParseable(metaFile[1]) /\ metaFile[1].id # id)
          => metaFile' = metaFile]_vars


\* C37: no frame that arrives after shutdown was requested is handed to the
\* handler.
C37_NoDispatchAfterShutdown ==
    /\ ~lateDispatch
    /\ \A i \in 1..Len(served) : ~served[i].afterCancel


\* C38: a crush/editFile request is answered with applied=true only when the
\* same step wrote a workspace/applyEdit request to the connected editor.
C38_AppliedOnlyWhenSent ==
    [][\A c \in HClientIDs, uri \in HURIs, delivered \in BOOLEAN :
          (handleEditFile(c, uri, delivered)
           /\ HWrite(c, c, EditFileResponse(TRUE)) \in hWritten')
          => HWrite(c, ClientTypeNeovim, "workspace/applyEdit") \in hWritten']_vars


\* C39: however the encodings of a sequence of messages are cut into
\* chunks, the splitter yields a token exactly when the whole next frame is
\* buffered, the tokens decode to the method and the content bytes of the
\* messages in their order, and the bytes not yet consumed are the
\* encodings of the messages not yet emitted.
C39_CodecRoundTrip ==
    LET n == Len(emitted)
        sp == rpcSplit(wireBuf)
    IN /\ n <= Len(wireMsgs)
       /\ \A i \in 1..n :
             /\ ~emitted[i].err
             /\ emitted[i].method = wireMsgs[i].method
             /\ emitted[i].content = Marshal(wireMsgs[i])
       /\ wireBuf \o wireRest = Encoded(SubSeq(wireMsgs, n + 1, Len(wireMsgs)))
       /\ ~sp.err /\ ~sp.panic
       /\ IF n < Len(wireMsgs) /\ Len(wireBuf) >= Len(EncodeMessage(wireMsgs[n + 1]))
          THEN sp.advance = Len(EncodeMessage(wireMsgs[n + 1]))
          ELSE sp.advance = 0
       /\ (wireRest = <<>> /\ sp.advance = 0) => (n = Len(wireMsgs) /\ wireBuf = <<>>)

\* the first message was emitted while the second frame, whose length has
\* two digits, is buffered in part
C39_Witness ==
    /\ Len(wireMsgs) >= 2 /\ Len(emitted) = 1
    /\ wireMsgs[1].method # wireMsgs[2].method
    /\ Len(Marshal(wireMsgs[2])) >= 10
    /\ Len(wireBuf) > Len(HeaderPrefix) + 6 /\ wireRest # <<>>


\* C40: the request ids an allocator hands out are strictly increasing in
\* the order in which they are obtained, so none is handed out twice,
\* whatever the interleaving of the allocating goroutines.
C40_RequestIDsIncrease ==
    \A i, j \in 1..Len(allocated) :
        (i < j /\ allocated[i].by = allocated[j].by) => allocated[i].id < allocated[j].id

\* both goroutines of cmd/neocrush and both of the Handler obtained an id
C40_Witness ==
    \E i, j, k, l \in 1..Len(allocated) :
        /\ allocated[i].by = "daemon" /\ allocated[j].by = "daemon"
        /\ allocated[i].thread # allocated[j].thread
        /\ allocated[k].by = "handler" /\ allocated[l].by = "handler"
        /\ allocated[k].thread # allocated[l].thread
====
